---- MODULE Spec2Model ----
(***************************************************************************)
(* WClaw signal-generation pipeline: market title parsing, ensemble bucket *)
(* probabilities, multi-model consensus, edge selection, fractional-Kelly  *)
(* sizing and the generateSignals orchestrator.                            *)
(*                                                                         *)
(* JavaScript numbers are modelled as exact extended rationals <<n, d>>:   *)
(*   d > 0   the finite value n/d, in lowest terms                         *)
(*   <<1,0>>   +Infinity      <<-1,0>>   -Infinity      <<0,0>>   NaN      *)
(* with the IEEE-754 rules for the non-finite values (NaN is unordered and *)
(* propagates, x/0 is an infinity, 0/0 and Infinity/Infinity are NaN).     *)
(* Rounding error of finite doubles is not modelled.                       *)
(***************************************************************************)
EXTENDS Integers, Sequences, FiniteSets, TLC

VARIABLES
    args,   \* the arguments of the call under check
    ret,    \* its return value, once pc = "done"
    pc      \* "call" before the function has run, "done" after

vars == <<args, ret, pc>>

(* JavaScript null (and the value of ret before the call returns). *)
Null == <<>>

---------------------------------------------------------------------------
(* JavaScript number arithmetic *)

NaN == <<0, 0>>

Infinity == <<1, 0>>

NegInfinity == <<-1, 0>>

Abs(n) == IF n < 0 THEN -n ELSE n

Sign(n) == IF n < 0 THEN -1 ELSE IF n > 0 THEN 1 ELSE 0

RECURSIVE GCD(_, _)
GCD(a, b) == IF b = 0 THEN a ELSE GCD(b, a % b)

(* The number n/d for integers n, d (d may be 0 or negative). *)
Norm(n, d) ==
    IF d = 0 THEN <<Sign(n), 0>>
    ELSE LET g == GCD(Abs(n), Abs(d))
             s == IF d < 0 THEN -1 ELSE 1
         IN  <<(s * n) \div g, (s * d) \div g>>

Num(n) == <<n, 1>>

IsNaN(a) == a = NaN

IsFinite(a) == a[2] # 0

NumNeg(a) == <<-a[1], a[2]>>

NumAdd(a, b) ==
    IF a[2] = 0 /\ b[2] = 0
    THEN IF a = b THEN a ELSE NaN
    ELSE Norm(a[1] * b[2] + b[1] * a[2], a[2] * b[2])

NumSub(a, b) == NumAdd(a, NumNeg(b))

NumMul(a, b) == Norm(a[1] * b[1], a[2] * b[2])

NumDiv(a, b) ==
    LET n == a[1] * b[2]
        d == a[2] * b[1]
    IN  IF d = 0 /\ b[1] < 0 THEN Norm(-n, 0) ELSE Norm(n, d)

NumLt(a, b) ==
    /\ ~IsNaN(a)
    /\ ~IsNaN(b)
    /\ IF a[2] = 0 /\ b[2] = 0 THEN a[1] < b[1]
       ELSE a[1] * b[2] < b[1] * a[2]

NumLe(a, b) == ~IsNaN(a) /\ ~IsNaN(b) /\ (a = b \/ NumLt(a, b))

NumGt(a, b) == NumLt(b, a)

NumGe(a, b) == NumLe(b, a)

MathMin(a, b) ==
    IF IsNaN(a) \/ IsNaN(b) THEN NaN ELSE IF NumLt(b, a) THEN b ELSE a

MathMax(a, b) ==
    IF IsNaN(a) \/ IsNaN(b) THEN NaN ELSE IF NumLt(a, b) THEN b ELSE a

MathFloor(a) == IF IsFinite(a) THEN <<a[1] \div a[2], 1>> ELSE a

---------------------------------------------------------------------------
(* Bounds of the model *)

(* Largest number of ensemble members in a daily forecast. *)
MaxMembers == 2

(* Member temperatures and bracket bounds range over 41 .. 41 + TempSpan. *)
TempSpan == 1

Temps == 41 .. (41 + TempSpan)

MemberLists == UNION {[1 .. n -> Temps] : n \in 0 .. MaxMembers}

Metrics == {"high", "low"}

(* Probabilities and prices of the sizing and edge checks are the multiples *)
(* of 1/Grid in [0, 1].                                                     *)
Grid == 4

GridValues == {Norm(k, Grid) : k \in 0 .. Grid}

(* The bracket descriptors parseMarketTitle builds from two integers X, Y   *)
(* of a title: "between X-Y", "X or below", "X or higher".                  *)
Brackets ==
    {[bracketType |-> "between", bracketMin |-> Num(x), bracketMax |-> Num(y + 1)] :
        x \in Temps, y \in Temps}
    \cup {[bracketType |-> "below", bracketMin |-> NegInfinity,
           bracketMax |-> Num(x + 1)] : x \in Temps}
    \cup {[bracketType |-> "above", bracketMin |-> Num(x),
           bracketMax |-> Infinity] : x \in Temps}

(* Member lists in nondecreasing order: one list per multiset of members.   *)
SortedLists ==
    {s \in MemberLists : \A i \in 1 .. Len(s) - 1 : s[i] <= s[i + 1]}

(* An ensemble with one daily entry, for day `date`; lows are the highs     *)
(* less 15 degrees.                                                         *)
EnsembleOf(city, date, highs) ==
    [city |-> city,
     daily |-> <<[date |-> date, highs |-> highs,
                  lows |-> [i \in 1 .. Len(highs) |-> highs[i] - 15]]>>]

Ensembles == {EnsembleOf("nyc", 1, h) : h \in SortedLists}

---------------------------------------------------------------------------
(* weather/probability.ts *)

Members(forecast, metric) ==
    IF metric = "high" THEN forecast.highs ELSE forecast.lows

(* Mutant of calcBucketProbability: the upper bound taken inclusive. *)
calcBucketProbability_inclusiveMax(forecast, metric, bracketMin, bracketMax) ==
    LET temps == Members(forecast, metric)
        total == Len(temps)
        InB(t) == NumGe(Num(t), bracketMin) /\ NumLe(Num(t), bracketMax)
        inBucket == Cardinality({i \in 1 .. Len(temps) : InB(temps[i])})
    IN  IF total = 0
        THEN [probability |-> Num(0), memberCount |-> 0]
        ELSE [probability |-> NumDiv(Num(inBucket), Num(total)),
              memberCount |-> inBucket]

calcBucketProbability(forecast, metric, bracketMin, bracketMax) ==
    LET temps == Members(forecast, metric)
        total == Len(temps)
        InB(t) == NumGe(Num(t), bracketMin) /\ NumLt(Num(t), bracketMax)
        inBucket == Cardinality({i \in 1 .. Len(temps) : InB(temps[i])})
    IN  IF total = 0
        THEN [probability |-> Num(0), memberCount |-> 0]
        ELSE [probability |-> NumDiv(Num(inBucket), Num(total)),
              memberCount |-> inBucket]

calcAboveProbability(forecast, metric, threshold) ==
    LET temps == Members(forecast, metric)
        AtLeast(t) == NumGe(Num(t), threshold)
    IN  IF Len(temps) = 0 THEN Num(0)
        ELSE NumDiv(Num(Cardinality({i \in 1 .. Len(temps) : AtLeast(temps[i])})),
                    Num(Len(temps)))

(* Mutant of calcBelowProbability: a member at the threshold counts as     *)
(* below.                                                                   *)
calcBelowProbability_inclusive(forecast, metric, threshold) ==
    LET temps == Members(forecast, metric)
        AtMost(t) == NumLe(Num(t), threshold)
    IN  IF Len(temps) = 0 THEN Num(0)
        ELSE NumDiv(Num(Cardinality({i \in 1 .. Len(temps) : AtMost(temps[i])})),
                    Num(Len(temps)))

calcBelowProbability(forecast, metric, threshold) ==
    LET temps == Members(forecast, metric)
        Under(t) == NumLt(Num(t), threshold)
    IN  IF Len(temps) = 0 THEN Num(0)
        ELSE NumDiv(Num(Cardinality({i \in 1 .. Len(temps) : Under(temps[i])})),
                    Num(Len(temps)))

(* ensemble.daily.find((d) => d.date === date): the first entry with the date. *)
FindDay(ensemble, date) ==
    LET hits == {i \in 1 .. Len(ensemble.daily) : ensemble.daily[i].date = date}
    IN  IF hits = {} THEN Null
        ELSE ensemble.daily[CHOOSE i \in hits : \A j \in hits : i <= j]

(* Mutant of getModelProbability: the thresholds of above and below are    *)
(* exchanged.                                                               *)
getModelProbability_swappedBounds(ensemble, date, metric, bracketType, bracketMin, bracketMax) ==
    LET day == FindDay(ensemble, date)
    IN  IF day = Null THEN Null
        ELSE CASE bracketType = "above" ->
                    calcAboveProbability(day, metric, bracketMax)
               [] bracketType = "below" ->
                    calcBelowProbability(day, metric, bracketMin)
               [] bracketType = "between" ->
                    calcBucketProbability(day, metric, bracketMin, bracketMax).probability

getModelProbability(ensemble, date, metric, bracketType, bracketMin, bracketMax) ==
    LET day == FindDay(ensemble, date)
    IN  IF day = Null THEN Null
        ELSE CASE bracketType = "above" ->
                    calcAboveProbability(day, metric, bracketMin)
               [] bracketType = "below" ->
                    calcBelowProbability(day, metric, bracketMax)
               [] bracketType = "between" ->
                    calcBucketProbability(day, metric, bracketMin, bracketMax).probability

---------------------------------------------------------------------------
(* engine/edge.ts *)

(* Mutant of calculateEdge: YES needs a strictly larger edge, so a tie goes  *)
(* to NO.                                                                   *)
calculateEdge_strictYes(market, ensemble) ==
    LET modelProb == getModelProbability(ensemble, market.date, market.metric,
                        market.bracketType, market.bracketMin, market.bracketMax)
        yesPrice == market.yesPrice
        noPrice == market.noPrice
        yesEdge == NumSub(modelProb, yesPrice)
        noEdge == NumSub(NumSub(Num(1), modelProb), noPrice)
    IN  IF modelProb = Null THEN Null
        ELSE IF NumGt(yesEdge, noEdge) /\ NumGt(yesEdge, Num(0))
        THEN [market |-> market, modelProbability |-> modelProb,
              marketPrice |-> yesPrice, edge |-> yesEdge, side |-> "YES",
              effectivePrice |-> yesPrice]
        ELSE IF NumGt(noEdge, Num(0))
        THEN [market |-> market,
              modelProbability |-> NumSub(Num(1), modelProb),
              marketPrice |-> noPrice, edge |-> noEdge, side |-> "NO",
              effectivePrice |-> noPrice]
        ELSE Null

(* Mutant of calculateEdge: the NO side is never taken. *)
calculateEdge_yesOnly(market, ensemble) ==
    LET modelProb == getModelProbability(ensemble, market.date, market.metric,
                        market.bracketType, market.bracketMin, market.bracketMax)
        yesPrice == market.yesPrice
        yesEdge == NumSub(modelProb, yesPrice)
    IN  IF modelProb = Null THEN Null
        ELSE IF NumGt(yesEdge, Num(0))
        THEN [market |-> market, modelProbability |-> modelProb,
              marketPrice |-> yesPrice, edge |-> yesEdge, side |-> "YES",
              effectivePrice |-> yesPrice]
        ELSE Null

calculateEdge(market, ensemble) ==
    LET modelProb == getModelProbability(ensemble, market.date, market.metric,
                        market.bracketType, market.bracketMin, market.bracketMax)
        yesPrice == market.yesPrice
        noPrice == market.noPrice
        yesEdge == NumSub(modelProb, yesPrice)
        noEdge == NumSub(NumSub(Num(1), modelProb), noPrice)
    IN  IF modelProb = Null THEN Null
        ELSE IF NumGe(yesEdge, noEdge) /\ NumGt(yesEdge, Num(0))
        THEN [market |-> market, modelProbability |-> modelProb,
              marketPrice |-> yesPrice, edge |-> yesEdge, side |-> "YES",
              effectivePrice |-> yesPrice]
        ELSE IF NumGt(noEdge, Num(0))
        THEN [market |-> market,
              modelProbability |-> NumSub(Num(1), modelProb),
              marketPrice |-> noPrice, edge |-> noEdge, side |-> "NO",
              effectivePrice |-> noPrice]
        ELSE Null

---------------------------------------------------------------------------
(* engine/sizing.ts *)

(* Mutant of kellySize: the cap at maxPositionPct is not applied. *)
kellySize_uncapped(modelProbability, effectivePrice, bankroll, config) ==
    LET p == modelProbability
        q == NumSub(Num(1), p)
        b == NumDiv(NumSub(Num(1), effectivePrice), effectivePrice)
        rawKelly == NumDiv(NumSub(NumMul(b, p), q), b)
        adjustedKelly == NumMul(rawKelly, config.kellyFraction)
        size == NumDiv(MathFloor(NumMul(NumMul(adjustedKelly, bankroll), Num(100))),
                       Num(100))
    IN  IF NumLe(b, Num(0))
        THEN [rawKelly |-> Num(0), adjustedKelly |-> Num(0), size |-> Num(0)]
        ELSE IF NumLe(rawKelly, Num(0))
        THEN [rawKelly |-> rawKelly, adjustedKelly |-> Num(0), size |-> Num(0)]
        ELSE [rawKelly |-> rawKelly, adjustedKelly |-> adjustedKelly,
              size |-> MathMax(size, Num(0))]

(* Mutant of kellySize: the test of the odds b <= 0 is missing. *)
kellySize_noOddsGuard(modelProbability, effectivePrice, bankroll, config) ==
    LET p == modelProbability
        q == NumSub(Num(1), p)
        b == NumDiv(NumSub(Num(1), effectivePrice), effectivePrice)
        rawKelly == NumDiv(NumSub(NumMul(b, p), q), b)
        adjustedKelly == NumMul(rawKelly, config.kellyFraction)
        cappedKelly == MathMin(adjustedKelly, config.maxPositionPct)
        size == NumDiv(MathFloor(NumMul(NumMul(cappedKelly, bankroll), Num(100))),
                       Num(100))
    IN  IF NumLe(rawKelly, Num(0))
        THEN [rawKelly |-> rawKelly, adjustedKelly |-> Num(0), size |-> Num(0)]
        ELSE [rawKelly |-> rawKelly, adjustedKelly |-> cappedKelly,
              size |-> MathMax(size, Num(0))]

(* Mutant of kellySize: the odds are price / (1 - price). *)
kellySize_invertedOdds(modelProbability, effectivePrice, bankroll, config) ==
    LET p == modelProbability
        q == NumSub(Num(1), p)
        b == NumDiv(effectivePrice, NumSub(Num(1), effectivePrice))
        rawKelly == NumDiv(NumSub(NumMul(b, p), q), b)
        adjustedKelly == NumMul(rawKelly, config.kellyFraction)
        cappedKelly == MathMin(adjustedKelly, config.maxPositionPct)
        size == NumDiv(MathFloor(NumMul(NumMul(cappedKelly, bankroll), Num(100))),
                       Num(100))
    IN  IF NumLe(b, Num(0))
        THEN [rawKelly |-> Num(0), adjustedKelly |-> Num(0), size |-> Num(0)]
        ELSE IF NumLe(rawKelly, Num(0))
        THEN [rawKelly |-> rawKelly, adjustedKelly |-> Num(0), size |-> Num(0)]
        ELSE [rawKelly |-> rawKelly, adjustedKelly |-> cappedKelly,
              size |-> MathMax(size, Num(0))]

kellySize(modelProbability, effectivePrice, bankroll, config) ==
    LET p == modelProbability
        q == NumSub(Num(1), p)
        b == NumDiv(NumSub(Num(1), effectivePrice), effectivePrice)
        rawKelly == NumDiv(NumSub(NumMul(b, p), q), b)
        adjustedKelly == NumMul(rawKelly, config.kellyFraction)
        cappedKelly == MathMin(adjustedKelly, config.maxPositionPct)
        size == NumDiv(MathFloor(NumMul(NumMul(cappedKelly, bankroll), Num(100))),
                       Num(100))
    IN  IF NumLe(b, Num(0))
        THEN [rawKelly |-> Num(0), adjustedKelly |-> Num(0), size |-> Num(0)]
        ELSE IF NumLe(rawKelly, Num(0))
        THEN [rawKelly |-> rawKelly, adjustedKelly |-> Num(0), size |-> Num(0)]
        ELSE [rawKelly |-> rawKelly, adjustedKelly |-> cappedKelly,
              size |-> MathMax(size, Num(0))]

---------------------------------------------------------------------------
(* engine/consensus.ts *)

(* Mutant of ConfidenceTierOf: the single-model rule is tested first, and   *)
(* the NEAR-SAFE rule before the STRONG rule.                               *)
ConfidenceTierOf_reordered(totalModels, modelsAgreeing) ==
    LET agreementRatio == NumDiv(Num(modelsAgreeing), Num(totalModels))
    IN  IF totalModels = 1
        THEN [confidence |-> "SAFE", kellyMultiplier |-> Num(1)]
        ELSE IF totalModels >= 2 /\ agreementRatio = Num(1)
        THEN [confidence |-> "LOCK", kellyMultiplier |-> Norm(15, 10)]
        ELSE IF NumGe(agreementRatio, Norm(5, 10))
        THEN [confidence |-> "NEAR-SAFE", kellyMultiplier |-> Norm(7, 10)]
        ELSE IF totalModels >= 2 /\ NumGe(agreementRatio, Norm(66, 100))
        THEN [confidence |-> "STRONG", kellyMultiplier |-> Norm(12, 10)]
        ELSE [confidence |-> "SKIP", kellyMultiplier |-> Num(0)]

(* Mutant of ConfidenceTierOf: NEAR-SAFE needs more than half of the models *)
(* to agree.                                                                *)
ConfidenceTierOf_strictHalf(totalModels, modelsAgreeing) ==
    LET agreementRatio == NumDiv(Num(modelsAgreeing), Num(totalModels))
    IN  IF totalModels >= 2 /\ agreementRatio = Num(1)
        THEN [confidence |-> "LOCK", kellyMultiplier |-> Norm(15, 10)]
        ELSE IF totalModels >= 2 /\ NumGe(agreementRatio, Norm(66, 100))
        THEN [confidence |-> "STRONG", kellyMultiplier |-> Norm(12, 10)]
        ELSE IF totalModels = 1
        THEN [confidence |-> "SAFE", kellyMultiplier |-> Num(1)]
        ELSE IF NumGt(agreementRatio, Norm(5, 10))
        THEN [confidence |-> "NEAR-SAFE", kellyMultiplier |-> Norm(7, 10)]
        ELSE [confidence |-> "SKIP", kellyMultiplier |-> Num(0)]

(* The tier and Kelly multiplier for totalModels models of which            *)
(* modelsAgreeing share the primary's vote.                                 *)
ConfidenceTierOf(totalModels, modelsAgreeing) ==
    LET agreementRatio == NumDiv(Num(modelsAgreeing), Num(totalModels))
    IN  IF totalModels >= 2 /\ agreementRatio = Num(1)
        THEN [confidence |-> "LOCK", kellyMultiplier |-> Norm(15, 10)]
        ELSE IF totalModels >= 2 /\ NumGe(agreementRatio, Norm(66, 100))
        THEN [confidence |-> "STRONG", kellyMultiplier |-> Norm(12, 10)]
        ELSE IF totalModels = 1
        THEN [confidence |-> "SAFE", kellyMultiplier |-> Num(1)]
        ELSE IF NumGe(agreementRatio, Norm(5, 10))
        THEN [confidence |-> "NEAR-SAFE", kellyMultiplier |-> Norm(7, 10)]
        ELSE [confidence |-> "SKIP", kellyMultiplier |-> Num(0)]

(* Whether the point forecast falls in the bracket (<<TRUE>> or <<FALSE>>),   *)
(* or Null when there is no point forecast or the metric is not the high.   *)
NwsInBracket(nwsHigh, metric, bracketType, bracketMin, bracketMax) ==
    IF nwsHigh # Null /\ metric = "high"
    THEN CASE bracketType = "above" -> <<NumGe(nwsHigh, bracketMin)>>
           [] bracketType = "below" -> <<NumLt(nwsHigh, bracketMax)>>
           [] bracketType = "between" ->
                <<NumGe(nwsHigh, bracketMin) /\ NumLt(nwsHigh, bracketMax)>>
    ELSE Null

(* Mutant of ConsensusOf: the secondary model weighs 1.0 like the primary.  *)
ConsensusOf_equalWeights(gfsProb, ecmwfProb, nwsInBracket, nwsHigh) ==
    LET probThreshold == Norm(5, 10)
        gfsVote == NumGe(gfsProb, probThreshold)
        modelsAgreeing ==
            1 + (IF ecmwfProb # Null /\ NumGe(ecmwfProb, probThreshold) = gfsVote
                 THEN 1 ELSE 0)
              + (IF nwsInBracket # Null /\ nwsInBracket[1] = gfsVote
                 THEN 1 ELSE 0)
        weighted ==
            IF ecmwfProb # Null
            THEN NumAdd(NumMul(gfsProb, Num(1)), NumMul(ecmwfProb, Num(1)))
            ELSE NumMul(gfsProb, Num(1))
        totalWeight ==
            IF ecmwfProb # Null THEN NumAdd(Num(1), Num(1)) ELSE Num(1)
        consensusProb == NumDiv(weighted, totalWeight)
        totalModels == 1 + (IF ecmwfProb # Null THEN 1 ELSE 0)
                         + (IF nwsInBracket # Null THEN 1 ELSE 0)
        tier == ConfidenceTierOf(totalModels, modelsAgreeing)
    IN  IF gfsProb = Null THEN Null
        ELSE [gfsProbability |-> gfsProb,
              ecmwfProbability |-> ecmwfProb,
              nwsHigh |-> nwsHigh,
              consensusProbability |-> consensusProb,
              confidence |-> tier.confidence,
              modelsAgreeing |-> modelsAgreeing,
              kellyMultiplier |-> tier.kellyMultiplier]

(* Mutant of ConsensusOf: no result without a secondary probability.        *)
ConsensusOf_secondaryRequired(gfsProb, ecmwfProb, nwsInBracket, nwsHigh) ==
    LET probThreshold == Norm(5, 10)
        gfsVote == NumGe(gfsProb, probThreshold)
        modelsAgreeing ==
            1 + (IF ecmwfProb # Null /\ NumGe(ecmwfProb, probThreshold) = gfsVote
                 THEN 1 ELSE 0)
              + (IF nwsInBracket # Null /\ nwsInBracket[1] = gfsVote
                 THEN 1 ELSE 0)
        weighted ==
            IF ecmwfProb # Null
            THEN NumAdd(NumMul(gfsProb, Num(1)), NumMul(ecmwfProb, Norm(12, 10)))
            ELSE NumMul(gfsProb, Num(1))
        totalWeight ==
            IF ecmwfProb # Null THEN NumAdd(Num(1), Norm(12, 10)) ELSE Num(1)
        consensusProb == NumDiv(weighted, totalWeight)
        totalModels == 1 + (IF ecmwfProb # Null THEN 1 ELSE 0)
                         + (IF nwsInBracket # Null THEN 1 ELSE 0)
        tier == ConfidenceTierOf(totalModels, modelsAgreeing)
    IN  IF gfsProb = Null \/ ecmwfProb = Null THEN Null
        ELSE [gfsProbability |-> gfsProb,
              ecmwfProbability |-> ecmwfProb,
              nwsHigh |-> nwsHigh,
              consensusProbability |-> consensusProb,
              confidence |-> tier.confidence,
              modelsAgreeing |-> modelsAgreeing,
              kellyMultiplier |-> tier.kellyMultiplier]

(* calculateConsensus from the model probabilities on: the votes, the       *)
(* weighted average, the tier and the result.                               *)
ConsensusOf(gfsProb, ecmwfProb, nwsInBracket, nwsHigh) ==
    LET probThreshold == Norm(5, 10)
        gfsVote == NumGe(gfsProb, probThreshold)
        modelsAgreeing ==
            1 + (IF ecmwfProb # Null /\ NumGe(ecmwfProb, probThreshold) = gfsVote
                 THEN 1 ELSE 0)
              + (IF nwsInBracket # Null /\ nwsInBracket[1] = gfsVote
                 THEN 1 ELSE 0)
        weighted ==
            IF ecmwfProb # Null
            THEN NumAdd(NumMul(gfsProb, Num(1)), NumMul(ecmwfProb, Norm(12, 10)))
            ELSE NumMul(gfsProb, Num(1))
        totalWeight ==
            IF ecmwfProb # Null THEN NumAdd(Num(1), Norm(12, 10)) ELSE Num(1)
        consensusProb == NumDiv(weighted, totalWeight)
        totalModels == 1 + (IF ecmwfProb # Null THEN 1 ELSE 0)
                         + (IF nwsInBracket # Null THEN 1 ELSE 0)
        tier == ConfidenceTierOf(totalModels, modelsAgreeing)
    IN  IF gfsProb = Null THEN Null
        ELSE [gfsProbability |-> gfsProb,
              ecmwfProbability |-> ecmwfProb,
              nwsHigh |-> nwsHigh,
              consensusProbability |-> consensusProb,
              confidence |-> tier.confidence,
              modelsAgreeing |-> modelsAgreeing,
              kellyMultiplier |-> tier.kellyMultiplier]

calculateConsensus(gfsEnsemble, ecmwfEnsemble, nwsHigh, date, metric, bracketType, bracketMin, bracketMax) ==
    ConsensusOf(
        getModelProbability(gfsEnsemble, date, metric, bracketType,
                            bracketMin, bracketMax),
        IF ecmwfEnsemble # Null
        THEN getModelProbability(ecmwfEnsemble, date, metric, bracketType,
                                 bracketMin, bracketMax)
        ELSE Null,
        NwsInBracket(nwsHigh, metric, bracketType, bracketMin, bracketMax),
        nwsHigh)

---------------------------------------------------------------------------
(* market/parser.ts: buildParsed *)

(* raw.tokens[i]?.price ?? 0 (i counted from 1 here). *)
TokenPrice(tokens, i) == IF i <= Len(tokens) THEN tokens[i].price ELSE Num(0)

(* raw.tokens[i]?.tokenId ?? "" *)
TokenId(tokens, i) == IF i <= Len(tokens) THEN tokens[i].tokenId ELSE ""

buildParsed(raw, city, date, metric, bracketType, bracketMin, bracketMax) ==
    [conditionId |-> raw.conditionId,
     city |-> city,
     date |-> date,
     metric |-> metric,
     bracketMin |-> bracketMin,
     bracketMax |-> bracketMax,
     bracketType |-> bracketType,
     yesTokenId |-> TokenId(raw.tokens, 1),
     noTokenId |-> TokenId(raw.tokens, 2),
     yesPrice |-> TokenPrice(raw.tokens, 1),
     noPrice |-> TokenPrice(raw.tokens, 2),
     volume |-> raw.volume,
     endDateIso |-> raw.endDateIso]

---------------------------------------------------------------------------
(* market/parser.ts: parseMarketTitle                                       *)
(* A string the parser takes apart is a sequence of one-character strings.  *)
(* A title is given by what the three regular expressions see in it: the    *)
(* wording of the bracket ("between X-Y", "X or below", "X or higher", or   *)
(* none of these), the text between "in" and "be", the numbers with their   *)
(* sign if any, and the month word and day after "on".                      *)

UpperCase ==
    <<"A", "B", "C", "D", "E", "F", "G", "H", "I", "J", "K", "L", "M",
      "N", "O", "P", "Q", "R", "S", "T", "U", "V", "W", "X", "Y", "Z">>

LowerCase ==
    <<"a", "b", "c", "d", "e", "f", "g", "h", "i", "j", "k", "l", "m",
      "n", "o", "p", "q", "r", "s", "t", "u", "v", "w", "x", "y", "z">>

(* String.prototype.toLowerCase *)
toLowerCase(s) ==
    [i \in 1 .. Len(s) |->
        IF \E k \in 1 .. Len(UpperCase) : UpperCase[k] = s[i]
        THEN LowerCase[CHOOSE k \in 1 .. Len(UpperCase) : UpperCase[k] = s[i]]
        ELSE s[i]]

(* String.prototype.trim: without the leading and trailing blanks. *)
trim(s) ==
    LET inked == {i \in 1 .. Len(s) : s[i] # " "}
    IN  IF inked = {} THEN <<>>
        ELSE SubSeq(s, CHOOSE i \in inked : \A j \in inked : i <= j,
                       CHOOSE i \in inked : \A j \in inked : i >= j)

(* String.prototype.includes *)
includes(s, t) ==
    \E i \in 0 .. (Len(s) - Len(t)) : SubSeq(s, i + 1, i + Len(t)) = t

DigitChars == <<"0", "1", "2", "3", "4", "5", "6", "7", "8", "9">>

IsDigit(c) == \E k \in 1 .. Len(DigitChars) : DigitChars[k] = c

(* Number(text) for a run of decimal digits. *)
NumberOf(digits) ==
    LET DigitValue(c) == (CHOOSE k \in 1 .. Len(DigitChars) : DigitChars[k] = c) - 1
        val[i \in 0 .. Len(digits)] ==
            IF i = 0 THEN 0 ELSE 10 * val[i - 1] + DigitValue(digits[i])
    IN  Num(val[Len(digits)])

(* text.replace(/\D/g, ""): the digits of the text. *)
DigitsOnly(s) == SelectSeq(s, IsDigit)

(* text.padStart(2, "0") *)
padStart2(s) ==
    IF Len(s) >= 2 THEN s ELSE IF Len(s) = 1 THEN <<"0">> \o s ELSE <<"0", "0">>

(* The own properties of MONTHS, in the order written. *)
MONTHS ==
    <<<<<<"j", "a", "n", "u", "a", "r", "y">>, "01">>,
      <<<<"f", "e", "b", "r", "u", "a", "r", "y">>, "02">>,
      <<<<"m", "a", "r", "c", "h">>, "03">>,
      <<<<"a", "p", "r", "i", "l">>, "04">>,
      <<<<"m", "a", "y">>, "05">>,
      <<<<"j", "u", "n", "e">>, "06">>,
      <<<<"j", "u", "l", "y">>, "07">>,
      <<<<"a", "u", "g", "u", "s", "t">>, "08">>,
      <<<<"s", "e", "p", "t", "e", "m", "b", "e", "r">>, "09">>,
      <<<<"o", "c", "t", "o", "b", "e", "r">>, "10">>,
      <<<<"n", "o", "v", "e", "m", "b", "e", "r">>, "11">>,
      <<<<"d", "e", "c", "e", "m", "b", "e", "r">>, "12">>,
      <<<<"j", "a", "n">>, "01">>,
      <<<<"f", "e", "b">>, "02">>,
      <<<<"m", "a", "r">>, "03">>,
      <<<<"a", "p", "r">>, "04">>,
      <<<<"j", "u", "n">>, "06">>,
      <<<<"j", "u", "l">>, "07">>,
      <<<<"a", "u", "g">>, "08">>,
      <<<<"s", "e", "p">>, "09">>,
      <<<<"o", "c", "t">>, "10">>,
      <<<<"n", "o", "v">>, "11">>,
      <<<<"d", "e", "c">>, "12">>>>

(* The own properties of CITY_ALIASES, in the order written. *)
CITY_ALIASES ==
    <<<<<<"n", "e", "w", " ", "y", "o", "r", "k">>, "nyc">>,
      <<<<"n", "e", "w", " ", "y", "o", "r", "k", " ", "c", "i", "t", "y">>, "nyc">>,
      <<<<"n", "y", "c">>, "nyc">>,
      <<<<"m", "a", "n", "h", "a", "t", "t", "a", "n">>, "nyc">>,
      <<<<"c", "e", "n", "t", "r", "a", "l", " ", "p", "a", "r", "k">>, "nyc">>,
      <<<<"c", "h", "i", "c", "a", "g", "o">>, "chicago">>,
      <<<<"o", "'", "h", "a", "r", "e">>, "chicago">>,
      <<<<"m", "i", "a", "m", "i">>, "miami">>,
      <<<<"a", "t", "l", "a", "n", "t", "a">>, "atlanta">>,
      <<<<"s", "e", "a", "t", "t", "l", "e">>, "seattle">>,
      <<<<"d", "a", "l", "l", "a", "s">>, "dallas">>,
      <<<<"d", "f", "w">>, "dallas">>,
      <<<<"f", "o", "r", "t", " ", "w", "o", "r", "t", "h">>, "dallas">>>>

(* The all-lower-case property names every object inherits from            *)
(* Object.prototype, with the text their values convert to.                 *)
ObjectPrototype ==
    <<<<<<"c", "o", "n", "s", "t", "r", "u", "c", "t", "o", "r">>,
        "function Object() { [native code] }">>,
      <<<<"_", "_", "p", "r", "o", "t", "o", "_", "_">>, "[object Object]">>>>

(* table[key] for an object literal: <<v>> for the own property, else for   *)
(* the inherited one (an object, always truthy), else Null for undefined.   *)
PropertyGet(table, key) ==
    IF \E k \in 1 .. Len(table) : table[k][1] = key
    THEN <<table[CHOOSE k \in 1 .. Len(table) : table[k][1] = key][2]>>
    ELSE IF \E k \in 1 .. Len(ObjectPrototype) : ObjectPrototype[k][1] = key
    THEN <<ObjectPrototype[CHOOSE k \in 1 .. Len(ObjectPrototype) :
                              ObjectPrototype[k][1] = key][2]>>
    ELSE Null

(* A regular expression's numbers are runs of digits: a signed number does  *)
(* not match.                                                               *)
Unsigned(number) == number.sign = ""

(* title.match(RE_BETWEEN): the groups city, X, Y, date, or Null. *)
MatchBetween(title) ==
    IF title.wording = "between" /\ Unsigned(title.x) /\ Unsigned(title.y)
    THEN <<title.city, title.x.digits, title.y.digits, title.date>>
    ELSE Null

(* title.match(RE_OR_BELOW): the groups city, X, date, or Null. *)
MatchOrBelow(title) ==
    IF title.wording = "or below" /\ Unsigned(title.x)
    THEN <<title.city, title.x.digits, title.date>>
    ELSE Null

(* title.match(RE_OR_HIGHER): the groups city, X, date, or Null. *)
MatchOrHigher(title) ==
    IF title.wording = "or higher" /\ Unsigned(title.x)
    THEN <<title.city, title.x.digits, title.date>>
    ELSE Null

(* The slug as <<slug>>, or Null. *)
matchCity(raw) ==
    LET normalized == toLowerCase(trim(raw))
        partial == {k \in 1 .. Len(CITY_ALIASES) :
                      \/ includes(normalized, CITY_ALIASES[k][1])
                      \/ includes(CITY_ALIASES[k][1], normalized)}
    IN  IF PropertyGet(CITY_ALIASES, normalized) # Null
        THEN PropertyGet(CITY_ALIASES, normalized)
        ELSE IF partial # {}
        THEN <<CITY_ALIASES[CHOOSE k \in partial : \A j \in partial : k <= j][2]>>
        ELSE Null

(* parseDate on the date group, the words of which are the month and the    *)
(* day; year is new Date().getFullYear().                                   *)
parseDate(raw, year) ==
    LET monthStr == toLowerCase(raw.month)
        day == DigitsOnly(raw.day)
        monthNum == PropertyGet(MONTHS, monthStr)
    IN  IF monthNum = Null \/ day = <<>> THEN Null
        ELSE [year |-> year, month |-> monthNum[1], day |-> padStart2(day)]

(* One branch of parseMarketTitle, after its pattern has matched. *)
ParsedBranch(raw, year, cityText, dateText, bracketType, bracketMin, bracketMax) ==
    IF matchCity(cityText) = Null THEN Null
    ELSE IF parseDate(dateText, year) = Null THEN Null
    ELSE buildParsed(raw, matchCity(cityText)[1], parseDate(dateText, year),
                     "high", bracketType, bracketMin, bracketMax)

(* Mutant of parseMarketTitle: the upper bounds are the numbers as written. *)
parseMarketTitle_maxAsWritten(raw, year) ==
    LET between == MatchBetween(raw.title)
        below == MatchOrBelow(raw.title)
        higher == MatchOrHigher(raw.title)
    IN  IF between # Null
        THEN ParsedBranch(raw, year, between[1], between[4], "between",
                          NumberOf(between[2]), NumberOf(between[3]))
        ELSE IF below # Null
        THEN ParsedBranch(raw, year, below[1], below[3], "below",
                          NegInfinity, NumberOf(below[2]))
        ELSE IF higher # Null
        THEN ParsedBranch(raw, year, higher[1], higher[3], "above",
                          NumberOf(higher[2]), Infinity)
        ELSE Null

parseMarketTitle(raw, year) ==
    LET between == MatchBetween(raw.title)
        below == MatchOrBelow(raw.title)
        higher == MatchOrHigher(raw.title)
    IN  IF between # Null
        THEN ParsedBranch(raw, year, between[1], between[4], "between",
                          NumberOf(between[2]),
                          NumAdd(NumberOf(between[3]), Num(1)))
        ELSE IF below # Null
        THEN ParsedBranch(raw, year, below[1], below[3], "below",
                          NegInfinity, NumAdd(NumberOf(below[2]), Num(1)))
        ELSE IF higher # Null
        THEN ParsedBranch(raw, year, higher[1], higher[3], "above",
                          NumberOf(higher[2]), Infinity)
        ELSE Null

(* The markets of the list that parse, in the order given. *)
RECURSIVE parseAllMarkets(_, _)
parseAllMarkets(raws, year) ==
    IF raws = <<>> THEN <<>>
    ELSE (IF parseMarketTitle(Head(raws), year) # Null
          THEN <<parseMarketTitle(Head(raws), year)>> ELSE <<>>)
         \o parseAllMarkets(Tail(raws), year)

---------------------------------------------------------------------------
(* engine/signals.ts *)
(* Time is counted in hours: the code's millisecond values divided by       *)
(* 3 600 000. A date "YYYY-MM-DD" is the number of its day; an ISO string   *)
(* is an instant (in hours) or a string that does not parse.                *)

MIN_VOLUME == 1000

MIN_HOURS_TO_SETTLE == 2

(* An instant given as an ISO string, in hours since the epoch. *)
IsoInstant(h) == [iso |-> "instant", hours |-> h]

(* The empty string, which fetchWeatherMarkets stores for a missing endDate. *)
IsoEmpty == [iso |-> "", hours |-> 0]

(* new Date(iso).getTime(): NaN for a string that is no date. *)
DateGetTime(iso) == IF iso.iso = "instant" THEN Num(iso.hours) ELSE NaN

(* new Date("YYYY-MM-DD").getTime(): midnight UTC of the day. *)
DayGetTime(date) == Num(24 * date)

(* Map.get: undefined (here Null) for a key the map does not hold; an       *)
(* absent map (ecmwfEnsembles?.get(...) ?? null) behaves as an empty one.   *)
MapGet(map, key) == IF key \in DOMAIN map THEN map[key] ELSE Null

(* Mutant of getConfidence: the edge thresholds are tested before the       *)
(* consensus tiers.                                                         *)
getConfidence_edgeFirst(edge, consensusConfidence) ==
    IF NumGe(edge, Norm(25, 100)) THEN "LOCK"
    ELSE IF NumGe(edge, Norm(15, 100)) THEN "STRONG"
    ELSE IF NumGe(edge, Norm(10, 100)) THEN "SAFE"
    ELSE IF consensusConfidence = "LOCK" THEN "LOCK"
    ELSE IF consensusConfidence = "STRONG" THEN "STRONG"
    ELSE "NEAR-SAFE"

getConfidence(edge, consensusConfidence) ==
    IF consensusConfidence = "LOCK" \/ NumGe(edge, Norm(25, 100)) THEN "LOCK"
    ELSE IF consensusConfidence = "STRONG" \/ NumGe(edge, Norm(15, 100))
    THEN "STRONG"
    ELSE IF NumGe(edge, Norm(10, 100)) THEN "SAFE"
    ELSE "NEAR-SAFE"

(* The condition ids of the positions with status open. *)
OpenConditionIds(openPositions) ==
    {openPositions[i].conditionId :
        i \in {j \in 1 .. Len(openPositions) : openPositions[j].status = "open"}}

(* Mutant of AlreadyOpen: the duplicate check is missing. *)
AlreadyOpen_never(openConditionIds, market) == FALSE

AlreadyOpen(openConditionIds, market) == market.conditionId \in openConditionIds

LowVolume(market) == NumLt(market.volume, Num(MIN_VOLUME))

SettlesTooSoon(market, now) ==
    NumLt(NumSub(DateGetTime(market.endDateIso), now), Num(MIN_HOURS_TO_SETTLE))

BeyondForecastRange(market, now) ==
    NumGt(NumSub(DayGetTime(market.date), now), Num(7 * 24))

(* Mutant of EdgeBelowMinimum: the minimum-edge filter is missing. *)
EdgeBelowMinimum_never(edge, minEdge) == FALSE

EdgeBelowMinimum(edge, minEdge) == NumLt(edge, minEdge)

(* The side taken on the consensus probability, or Null for no edge. *)
ChooseSide(consensusProb, yesPrice, noPrice) ==
    LET yesEdge == NumSub(consensusProb, yesPrice)
        noEdge == NumSub(NumSub(Num(1), consensusProb), noPrice)
    IN  IF NumGe(yesEdge, noEdge) /\ NumGt(yesEdge, Num(0))
        THEN [side |-> "YES", edge |-> yesEdge,
              modelProbability |-> consensusProb, effectivePrice |-> yesPrice]
        ELSE IF NumGt(noEdge, Num(0))
        THEN [side |-> "NO", edge |-> noEdge,
              modelProbability |-> NumSub(Num(1), consensusProb),
              effectivePrice |-> noPrice]
        ELSE Null

(* The size of the position: the Kelly size times the tier's multiplier,    *)
(* capped again and rounded down to cents.                                  *)
AdjustedSize(sizing, kellyMultiplier, bankroll, config) ==
    LET scaled == NumMul(sizing.size, kellyMultiplier)
        capped == MathMin(scaled, NumMul(bankroll, config.maxPositionPct))
    IN  NumDiv(MathFloor(NumMul(capped, Num(100))), Num(100))

(* The loop body of generateSignals, written as successive stages: each     *)
(* stage receives the values computed so far and yields <<>> when the       *)
(* market is skipped, else the one signal pushed. The signal's random id is *)
(* left out.                                                                *)

(* Last stage: the minimum tradable size, and the signal. *)
SignalSized(market, now, consensus, pick, sizing, adjustedSize) ==
    IF NumLt(adjustedSize, Norm(50, 100)) THEN <<>>
    ELSE <<[market |-> market,
            modelProbability |-> pick.modelProbability,
            marketPrice |-> pick.effectivePrice,
            edge |-> pick.edge,
            side |-> pick.side,
            size |-> adjustedSize,
            kelly |-> sizing.rawKelly,
            confidence |-> getConfidence(pick.edge, consensus.confidence),
            createdAt |-> now]>>

(* The tier's multiplier applied to the Kelly size. *)
SignalFromSizing(market, config, now, consensus, pick, sizing) ==
    SignalSized(market, now, consensus, pick, sizing,
        AdjustedSize(sizing, consensus.kellyMultiplier, config.bankrollUsdc,
                     config))

(* The no-edge and minimum-edge filters, then the sizing. *)
SignalFromSide(market, config, now, consensus, pick) ==
    IF pick = Null THEN <<>>
    ELSE IF EdgeBelowMinimum(pick.edge, NumDiv(config.minEdgePct, Num(100)))
    THEN <<>>
    ELSE SignalFromSizing(market, config, now, consensus, pick,
            kellySize(pick.modelProbability, pick.effectivePrice,
                      config.bankrollUsdc, config))

(* The consensus filters, then the side. *)
SignalFromConsensus(market, config, now, consensus) ==
    IF consensus = Null THEN <<>>
    ELSE IF consensus.confidence = "SKIP" THEN <<>>
    ELSE SignalFromSide(market, config, now, consensus,
            ChooseSide(consensus.consensusProbability, market.yesPrice,
                       market.noPrice))

(* First stage: the eligibility filters, then the consensus (with null for  *)
(* the point forecast).                                                     *)
SignalOf(market, gfsEnsembles, config, openConditionIds, ecmwfEnsembles, now) ==
    IF AlreadyOpen(openConditionIds, market) THEN <<>>
    ELSE IF LowVolume(market) THEN <<>>
    ELSE IF SettlesTooSoon(market, now) THEN <<>>
    ELSE IF BeyondForecastRange(market, now) THEN <<>>
    ELSE IF MapGet(gfsEnsembles, market.city) = Null THEN <<>>
    ELSE SignalFromConsensus(market, config, now,
            calculateConsensus(MapGet(gfsEnsembles, market.city),
                MapGet(ecmwfEnsembles, market.city), Null, market.date,
                market.metric, market.bracketType, market.bracketMin,
                market.bracketMax))

RECURSIVE SignalsOf(_, _, _, _, _, _)
SignalsOf(markets, gfsEnsembles, config, openConditionIds, ecmwfEnsembles, now) ==
    IF markets = <<>> THEN <<>>
    ELSE SignalOf(Head(markets), gfsEnsembles, config, openConditionIds,
                  ecmwfEnsembles, now)
         \o SignalsOf(Tail(markets), gfsEnsembles, config, openConditionIds,
                      ecmwfEnsembles, now)

(* Mutant of generateSignals: the signals are re-ranked by edge, largest    *)
(* first.                                                                   *)
generateSignals_rankedByEdge(markets, gfsEnsembles, config, openPositions, ecmwfEnsembles, now) ==
    LET signals == SignalsOf(markets, gfsEnsembles, config,
                       OpenConditionIds(openPositions), ecmwfEnsembles, now)
        n == Len(signals)
        order == CHOOSE f \in [1 .. n -> 1 .. n] :
                    /\ \A i, j \in 1 .. n : i # j => f[i] # f[j]
                    /\ \A i, j \in 1 .. n :
                          i < j => NumGe(signals[f[i]].edge, signals[f[j]].edge)
    IN  [i \in 1 .. n |-> signals[order[i]]]

generateSignals(markets, gfsEnsembles, config, openPositions, ecmwfEnsembles, now) ==
    SignalsOf(markets, gfsEnsembles, config, OpenConditionIds(openPositions),
              ecmwfEnsembles, now)

---------------------------------------------------------------------------
(* Specification SpecProb: calcBucketProbability on every forecast, metric *)
(* and pair of bounds within the bounds of the model.                      *)

BoundValues == {Num(t) : t \in Temps} \cup {NegInfinity, Infinity}

ProbArgs ==
    [fn : {"calcBucketProbability"},
     forecast : [date : {1}, highs : MemberLists, lows : MemberLists],
     metric : Metrics,
     bracketMin : BoundValues,
     bracketMax : BoundValues]

InitProb == args \in ProbArgs /\ ret = Null /\ pc = "call"

CallBucket ==
    /\ pc = "call"
    /\ args.fn = "calcBucketProbability"
    /\ ret' = calcBucketProbability(args.forecast, args.metric,
                                    args.bracketMin, args.bracketMax)
    /\ pc' = "done"
    /\ UNCHANGED args

NextProb == CallBucket

SpecProb == InitProb /\ [][NextProb]_vars

(* The members v of list s with lo <= v < hi, counted member by member on   *)
(* the integers; lo and hi are integers or an infinity.                     *)
RECURSIVE MembersWithin(_, _, _)
MembersWithin(s, lo, hi) ==
    IF s = <<>> THEN 0
    ELSE LET v == Head(s)
             geLo == lo = NegInfinity \/ (lo[2] = 1 /\ lo[1] <= v)
             ltHi == hi = Infinity \/ (hi[2] = 1 /\ v < hi[1])
         IN  (IF geLo /\ ltHi THEN 1 ELSE 0) + MembersWithin(Tail(s), lo, hi)

(* C1: calcBucketProbability returns memberCount = the number of members v  *)
(* of the metric's list with min <= v < max (min inclusive, max exclusive)  *)
(* and probability = memberCount / total; for an empty list it returns      *)
(* probability 0 and memberCount 0.                                         *)
C1_BucketProbability ==
    (pc = "done" /\ args.fn = "calcBucketProbability") =>
        LET temps == IF args.metric = "high" THEN args.forecast.highs
                     ELSE args.forecast.lows
            total == Len(temps)
            cnt == MembersWithin(temps, args.bracketMin, args.bracketMax)
        IN  /\ ret.memberCount = cnt
            /\ total = 0 => ret.probability = <<0, 1>> /\ ret.memberCount = 0
            /\ total > 0 =>
                  /\ ret.probability[2] > 0
                  /\ ret.probability[1] * total = cnt * ret.probability[2]

(* C1 witness: a two-member list with one member exactly at min (counted)   *)
(* and one exactly at max (not counted).                                    *)
C1_Witness ==
    /\ pc = "done"
    /\ args.fn = "calcBucketProbability"
    /\ args.metric = "high"
    /\ args.forecast.highs = <<42, 41>>
    /\ args.bracketMin = <<41, 1>>
    /\ args.bracketMax = <<42, 1>>
    /\ ret.memberCount = 1
    /\ ret.probability = <<1, 2>>

---------------------------------------------------------------------------
(* Specification SpecEdge: calculateEdge on every bracket, ensemble and     *)
(* pair of prices (not required to sum to 1).                               *)

EdgeMarkets ==
    {[conditionId |-> "c1", city |-> "nyc", date |-> d, metric |-> "high",
      bracketType |-> b.bracketType, bracketMin |-> b.bracketMin,
      bracketMax |-> b.bracketMax, yesPrice |-> y, noPrice |-> n,
      volume |-> Num(5000), endDateIso |-> IsoInstant(48)] :
        d \in {1, 2}, b \in Brackets, y \in GridValues, n \in GridValues}

InitEdge ==
    /\ args \in [fn : {"calculateEdge"}, market : EdgeMarkets, ensemble : Ensembles]
    /\ ret = Null
    /\ pc = "call"

CallEdge ==
    /\ pc = "call"
    /\ args.fn = "calculateEdge"
    /\ ret' = calculateEdge(args.market, args.ensemble)
    /\ pc' = "done"
    /\ UNCHANGED args

NextEdge == CallEdge

SpecEdge == InitEdge /\ [][NextEdge]_vars

(* The model probability of the market of a calculateEdge call. *)
EdgeProb ==
    getModelProbability(args.ensemble, args.market.date, args.market.metric,
        args.market.bracketType, args.market.bracketMin, args.market.bracketMax)

EdgeYes == NumSub(EdgeProb, args.market.yesPrice)

EdgeNo == NumSub(NumSub(Num(1), EdgeProb), args.market.noPrice)

(* C2: with yesEdge = p - yesPrice and noEdge = (1 - p) - noPrice,           *)
(* calculateEdge returns side YES exactly when yesEdge >= noEdge and         *)
(* yesEdge > 0, otherwise side NO exactly when noEdge > 0, otherwise null;   *)
(* a tie yesEdge = noEdge > 0 goes to YES.                                   *)
C2_EdgeSide ==
    (pc = "done" /\ args.fn = "calculateEdge" /\ EdgeProb # Null) =>
        IF NumGe(EdgeYes, EdgeNo) /\ NumGt(EdgeYes, Num(0))
        THEN ret # Null /\ ret.side = "YES" /\ ret.edge = EdgeYes
        ELSE IF NumGt(EdgeNo, Num(0))
        THEN ret # Null /\ ret.side = "NO" /\ ret.edge = EdgeNo
        ELSE ret = Null

(* C2 witness: a tie of two positive edges, resolved to YES, with prices    *)
(* that do not sum to 1.                                                    *)
C2_Witness ==
    /\ pc = "done"
    /\ args.fn = "calculateEdge"
    /\ EdgeProb # Null
    /\ EdgeYes = EdgeNo
    /\ NumGt(EdgeYes, Num(0))
    /\ NumAdd(args.market.yesPrice, args.market.noPrice) # Num(1)
    /\ ret # Null
    /\ ret.side = "YES"

---------------------------------------------------------------------------
(* Specification SpecKelly: kellySize on a grid of probabilities and        *)
(* prices (0 and 1 included), bankrolls and configs.                        *)

Bankrolls == {Num(0), Num(7), Num(100)}

KellyConfigs ==
    [mode : {"paper"}, bankrollUsdc : {Num(100)},
     maxPositionPct : {Norm(5, 100), Norm(1, 4)},
     minEdgePct : {Num(8)},
     kellyFraction : {Norm(1, 4), Num(1)},
     maxOpenPositions : {10}]

InitKelly ==
    /\ args \in [fn : {"kellySize"}, modelProbability : GridValues,
                 effectivePrice : GridValues, bankroll : Bankrolls,
                 config : KellyConfigs]
    /\ ret = Null
    /\ pc = "call"

CallKelly ==
    /\ pc = "call"
    /\ args.fn = "kellySize"
    /\ ret' = kellySize(args.modelProbability, args.effectivePrice,
                        args.bankroll, args.config)
    /\ pc' = "done"
    /\ UNCHANGED args

NextKelly == CallKelly

SpecKelly == InitKelly /\ [][NextKelly]_vars

---------------------------------------------------------------------------
(* Specification SpecConsensus: calculateConsensus on every primary         *)
(* ensemble, optional secondary ensemble (possibly without the date),       *)
(* optional point forecast, metric and bracket.                             *)

SecondaryEnsembles ==
    {Null} \cup Ensembles \cup {EnsembleOf("nyc", 2, <<>>)}

PointForecasts == {Null} \cup {Num(t) : t \in Temps}

InitConsensus ==
    /\ args \in [fn : {"calculateConsensus"}, gfsEnsemble : Ensembles,
                 ecmwfEnsemble : SecondaryEnsembles, nwsHigh : PointForecasts,
                 date : {1, 2}, metric : Metrics, bracket : Brackets]
    /\ ret = Null
    /\ pc = "call"

CallConsensus ==
    /\ pc = "call"
    /\ args.fn = "calculateConsensus"
    /\ ret' = calculateConsensus(args.gfsEnsemble, args.ecmwfEnsemble,
                 args.nwsHigh, args.date, args.metric, args.bracket.bracketType,
                 args.bracket.bracketMin, args.bracket.bracketMax)
    /\ pc' = "done"
    /\ UNCHANGED args

NextConsensus == CallConsensus

SpecConsensus == InitConsensus /\ [][NextConsensus]_vars

(* Whether the tiebreaker takes part in a calculateConsensus call: a point  *)
(* forecast is given and the metric is the daily high.                      *)
TiebreakerAvailable == args.nwsHigh # Null /\ args.metric = "high"

(* C4: the tier and Kelly multiplier are those of the first matching rule   *)
(* of the table, with models = 1 + (secondary available) + (tiebreaker      *)
(* available) and ratio = modelsAgreeing / models:                          *)
(*   models >= 2 and ratio = 1     -> LOCK / 1.5                            *)
(*   models >= 2 and ratio >= 0.66 -> STRONG / 1.2                          *)
(*   models = 1                    -> SAFE / 1.0                            *)
(*   ratio >= 0.5                  -> NEAR-SAFE / 0.7                       *)
(*   otherwise                     -> SKIP / 0                              *)
C4_TierTable ==
    (pc = "done" /\ args.fn = "calculateConsensus" /\ ret # Null) =>
        LET models == 1 + (IF ret.ecmwfProbability # Null THEN 1 ELSE 0)
                        + (IF TiebreakerAvailable THEN 1 ELSE 0)
            agree == ret.modelsAgreeing
            tier == ret.confidence
            mult == ret.kellyMultiplier
        IN  /\ agree \in 1 .. models
            /\ IF models >= 2 /\ agree = models
               THEN tier = "LOCK" /\ mult = <<3, 2>>
               ELSE IF models >= 2 /\ 100 * agree >= 66 * models
               THEN tier = "STRONG" /\ mult = <<6, 5>>
               ELSE IF models = 1
               THEN tier = "SAFE" /\ mult = <<1, 1>>
               ELSE IF 2 * agree >= models
               THEN tier = "NEAR-SAFE" /\ mult = <<7, 10>>
               ELSE tier = "SKIP" /\ mult = <<0, 1>>

(* C4 witness: three models of which two agree (ratio 2/3), tier STRONG.    *)
C4_Witness ==
    /\ pc = "done"
    /\ args.fn = "calculateConsensus"
    /\ ret # Null
    /\ ret.ecmwfProbability # Null
    /\ TiebreakerAvailable
    /\ ret.modelsAgreeing = 2
    /\ ret.confidence = "STRONG"
    /\ ret.kellyMultiplier = <<6, 5>>

(* The primary probability of the calculateConsensus call. *)
PrimaryProb ==
    getModelProbability(args.gfsEnsemble, args.date, args.metric,
        args.bracket.bracketType, args.bracket.bracketMin,
        args.bracket.bracketMax)

(* The secondary probability of the call, Null when no secondary forecast   *)
(* is given or it has no entry for the date.                                *)
SecondaryProb ==
    IF args.ecmwfEnsemble = Null THEN Null
    ELSE getModelProbability(args.ecmwfEnsemble, args.date, args.metric,
            args.bracket.bracketType, args.bracket.bracketMin,
            args.bracket.bracketMax)

(* The call has returned a result. *)
ConsensusReturned ==
    pc = "done" /\ args.fn = "calculateConsensus" /\ ret # Null

---------------------------------------------------------------------------
(* Specification SpecSignals: one generateSignals call on a list of parsed  *)
(* markets, with the forecasts, config and open positions of the cycle.     *)

(* Date.now() of the call: noon of day 0. *)
Nows == {Num(12)}

(* Full ensembles: MaxMembers members each. *)
SignalHighs == {s \in SortedLists : Len(s) = MaxMembers}

(* A forecast with entries for day 1 and day 8 (none for day 2). *)
ForecastOf(city, highs) ==
    [city |-> city,
     daily |-> <<[date |-> 1, highs |-> highs,
                  lows |-> [i \in 1 .. Len(highs) |-> highs[i] - 15]],
                 [date |-> 8, highs |-> highs,
                  lows |-> [i \in 1 .. Len(highs) |-> highs[i] - 15]]>>]

(* Forecasts exist for nyc only. *)
ForecastMaps == {[c \in {"nyc"} |-> ForecastOf(c, h)] : h \in SignalHighs}

SignalConfigs ==
    [mode : {"paper"}, bankrollUsdc : {Num(10), Num(100)},
     maxPositionPct : {Norm(5, 100)},
     minEdgePct : {Num(8)},
     kellyFraction : {Norm(1, 4)},
     maxOpenPositions : {10}]

OpenPositionLists ==
    {<<>>,
     <<[conditionId |-> "c1", status |-> "open"],
       [conditionId |-> "c2", status |-> "lost"]>>}

YesPrices == {Norm(1, 4), Norm(2, 5), Norm(9, 20)}

Token(id, outcome, price) == [tokenId |-> id, outcome |-> outcome, price |-> price]

(* Both tokens with complementary prices, the NO token missing, or no token. *)
TokenLists ==
    {<<>>}
    \cup {<<Token("y", "Yes", y)>> : y \in YesPrices}
    \cup {<<Token("y", "Yes", y), Token("n", "No", NumSub(Num(1), y))>> :
            y \in YesPrices}

RawMarkets ==
    [conditionId : {"c1", "c2"},
     tokens : TokenLists,
     volume : {Num(999), Num(1000)},
     endDateIso : {IsoEmpty, IsoInstant(13), IsoInstant(14)}]

SignalBrackets ==
    {[bracketType |-> "between", bracketMin |-> Num(41), bracketMax |-> Num(42)],
     [bracketType |-> "below", bracketMin |-> NegInfinity, bracketMax |-> Num(42)],
     [bracketType |-> "above", bracketMin |-> Num(42), bracketMax |-> Infinity]}

ParsedMarkets ==
    {buildParsed(raw, city, date, "high", b.bracketType, b.bracketMin, b.bracketMax) :
        raw \in RawMarkets, city \in {"nyc", "chicago"}, date \in {1, 2, 8},
        b \in SignalBrackets}

(* The longest list of markets of one call. *)
MaxMarkets == 2

(* Eligible markets at a quarter, from which the longer lists are drawn. *)
PoolMarkets ==
    {m \in ParsedMarkets :
        /\ m.volume = Num(1000)
        /\ m.endDateIso = IsoInstant(14)
        /\ m.city = "nyc"
        /\ m.date = 1
        /\ m.yesPrice = Norm(1, 4)
        /\ m.noPrice = Norm(3, 4)}

(* No market, any one market, or several markets of the pool. *)
MarketLists ==
    {<<>>}
    \cup {<<m>> : m \in ParsedMarkets}
    \cup UNION {[1 .. n -> PoolMarkets] : n \in 2 .. MaxMarkets}

InitSignals ==
    /\ args \in [fn : {"generateSignals"},
                 markets : MarketLists,
                 gfsEnsembles : ForecastMaps,
                 config : SignalConfigs,
                 openPositions : OpenPositionLists,
                 ecmwfEnsembles : {Null} \cup ForecastMaps,
                 now : Nows]
    /\ ret = Null
    /\ pc = "call"

CallSignals ==
    /\ pc = "call"
    /\ args.fn = "generateSignals"
    /\ ret' = generateSignals(args.markets, args.gfsEnsembles, args.config,
                              args.openPositions, args.ecmwfEnsembles, args.now)
    /\ pc' = "done"
    /\ UNCHANGED args

NextSignals == CallSignals

SpecSignals == InitSignals /\ [][NextSignals]_vars

(* A generateSignals call has returned. *)
SignalsDone == pc = "done" /\ args.fn = "generateSignals"

(* The signals the call returned. *)
Emitted == IF SignalsDone THEN {ret[i] : i \in 1 .. Len(ret)} ELSE {}

(* The markets handed to the call. *)
Offered == {args.markets[i] : i \in 1 .. Len(args.markets)}

(* The consensus the call computes for a market whose city has a primary    *)
(* forecast.                                                                *)
ConsensusFor(market) ==
    calculateConsensus(MapGet(args.gfsEnsembles, market.city),
        MapGet(args.ecmwfEnsembles, market.city), Null, market.date,
        market.metric, market.bracketType, market.bracketMin, market.bracketMax)

(* GFS and ECMWF both give a probability for the market, on opposite sides  *)
(* of 0.5.                                                                  *)
OppositeVotes(market) ==
    /\ MapGet(args.gfsEnsembles, market.city) # Null
    /\ ConsensusFor(market) # Null
    /\ ConsensusFor(market).ecmwfProbability # Null
    /\ NumGe(ConsensusFor(market).gfsProbability, Norm(1, 2))
         # NumGe(ConsensusFor(market).ecmwfProbability, Norm(1, 2))

(* C5: when GFS and ECMWF cast opposite votes on a market, the consensus    *)
(* tier is SKIP with multiplier 0 and generateSignals emits no signal for   *)
(* that market.                                                             *)
C5_OppositeVotesSkip ==
    SignalsDone =>
        \A m \in Offered :
            OppositeVotes(m) =>
                /\ ConsensusFor(m).confidence = "SKIP"
                /\ ConsensusFor(m).kellyMultiplier = Num(0)
                /\ \A s \in Emitted : s.market # m

(* C6: every emitted signal has a finite size of whole cents with           *)
(* 0.50 <= size <= maxPositionPct * bankroll, also for a market whose       *)
(* prices defaulted to 0.                                                   *)
C6_SizeWellFormed ==
    \A s \in Emitted :
        /\ IsFinite(s.size)
        /\ NumMul(s.size, Num(100))[2] = 1
        /\ NumGe(s.size, Norm(50, 100))
        /\ NumLe(s.size,
                 NumMul(args.config.maxPositionPct, args.config.bankrollUsdc))

(* C7: every emitted signal has edge >= minEdgePct / 100, the edge being    *)
(* the chosen side's probability minus the chosen side's price: the blended *)
(* probability and the YES price for YES, one minus it and the NO price for *)
(* NO.                                                                      *)
C7_EdgeAtLeastMinimum ==
    \A s \in Emitted :
        /\ NumGe(s.edge, NumDiv(args.config.minEdgePct, Num(100)))
        /\ s.edge = NumSub(s.modelProbability, s.marketPrice)
        /\ s.side \in {"YES", "NO"}
        /\ s.side = "YES" =>
              /\ s.modelProbability = ConsensusFor(s.market).consensusProbability
              /\ s.marketPrice = s.market.yesPrice
        /\ s.side = "NO" =>
              /\ s.modelProbability =
                    NumSub(Num(1), ConsensusFor(s.market).consensusProbability)
              /\ s.marketPrice = s.market.noPrice

(* C7 witness: one call emits a YES signal and a NO signal, each at an edge *)
(* of at least the minimum.                                                 *)
C7_Witness ==
    /\ \E s \in Emitted :
          /\ s.side = "YES"
          /\ NumGe(s.edge, NumDiv(args.config.minEdgePct, Num(100)))
    /\ \E s \in Emitted :
          /\ s.side = "NO"
          /\ NumGe(s.edge, NumDiv(args.config.minEdgePct, Num(100)))

(* C8: no emitted signal is for a market whose conditionId is that of a     *)
(* position with status open in the supplied list.                          *)
C8_NoDuplicateOfOpenPosition ==
    \A s \in Emitted :
        \A i \in 1 .. Len(args.openPositions) :
            args.openPositions[i].status = "open" =>
                s.market.conditionId # args.openPositions[i].conditionId

(* C8 witness: of two markets offered, the one with an open position is     *)
(* dropped and the one whose position is settled gets a signal.             *)
C8_Witness ==
    /\ SignalsDone
    /\ Len(args.markets) = 2
    /\ args.markets[1].conditionId = "c1"
    /\ args.markets[2].conditionId = "c2"
    /\ \E i \in 1 .. Len(args.openPositions) :
          /\ args.openPositions[i].status = "open"
          /\ args.openPositions[i].conditionId = "c1"
    /\ Len(ret) = 1
    /\ ret[1].market = args.markets[2]

(* C9: every emitted signal is for a market with volume >= 1000, an end     *)
(* time at least 2 hours after now, a date at most 7 days after now and a   *)
(* GFS forecast for its city, also when the end time is empty.              *)
C9_EligibleMarket ==
    \A s \in Emitted :
        /\ NumGe(s.market.volume, Num(1000))
        /\ NumGe(NumSub(DateGetTime(s.market.endDateIso), args.now), Num(2))
        /\ NumLe(NumSub(DayGetTime(s.market.date), args.now), Num(7 * 24))
        /\ s.market.city \in DOMAIN args.gfsEnsembles

(* C10: the label of every emitted signal follows the first matching rule:  *)
(* edge >= 0.25 or tier LOCK gives LOCK; edge >= 0.15 or tier STRONG gives  *)
(* STRONG; edge >= 0.10 gives SAFE; otherwise NEAR-SAFE.                    *)
C10_ConfidenceLabel ==
    \A s \in Emitted :
        LET tier == ConsensusFor(s.market).confidence
            rule1 == NumGe(s.edge, Norm(25, 100)) \/ tier = "LOCK"
            rule2 == NumGe(s.edge, Norm(15, 100)) \/ tier = "STRONG"
            rule3 == NumGe(s.edge, Norm(10, 100))
        IN  /\ rule1 => s.confidence = "LOCK"
            /\ ~rule1 /\ rule2 => s.confidence = "STRONG"
            /\ ~rule1 /\ ~rule2 /\ rule3 => s.confidence = "SAFE"
            /\ ~rule1 /\ ~rule2 /\ ~rule3 => s.confidence = "NEAR-SAFE"

(* C10 witness: a signal labelled LOCK by its tier alone, its edge being    *)
(* below 0.15.                                                              *)
C10_Witness ==
    \E s \in Emitted :
        /\ ConsensusFor(s.market).confidence = "LOCK"
        /\ NumLt(s.edge, Norm(15, 100))
        /\ s.confidence = "LOCK"

---------------------------------------------------------------------------
(* Specification SpecParser: parseMarketTitle on one raw market, and        *)
(* parseAllMarkets on a short list of raw markets.                          *)

(* The text between "in" and "be": aliases as written in titles, part of an *)
(* alias, names that are no alias, and a blank.                             *)
CityTexts ==
    {<<"N", "e", "w", " ", "Y", "o", "r", "k", " ", "C", "i", "t", "y">>,
     <<"N", "Y", "C">>,
     <<"C", "h", "i", "c", "a", "g", "o">>,
     <<"Y", "o", "r", "k">>,
     <<"T", "o", "k", "y", "o">>,
     <<"C", "o", "n", "s", "t", "r", "u", "c", "t", "o", "r">>,
     <<" ">>}

(* The numbers of a title: runs of digits, one with a leading zero, and a   *)
(* number below zero.                                                       *)
TitleNumbers ==
    {[sign |-> "", digits |-> <<"3", "2">>],
     [sign |-> "", digits |-> <<"3", "3">>],
     [sign |-> "", digits |-> <<"0", "7">>],
     [sign |-> "-", digits |-> <<"5">>]}

(* The month word and the day after "on". *)
DateTexts ==
    [month : {<<"F", "e", "b", "r", "u", "a", "r", "y">>, <<"F", "E", "B">>, <<"S", "m", "a", "r", "c", "h">>, <<"c", "o", "n", "s", "t", "r", "u", "c", "t", "o", "r">>},
     day : {<<"5">>, <<"1", "6">>}]

Titles ==
    [wording : {"between", "or below", "or higher", "none"},
     city : CityTexts, x : TitleNumbers, y : TitleNumbers, date : DateTexts]

(* A raw market with the given title and both tokens. *)
RawWithTitle(title) ==
    [conditionId |-> "c1", title |-> title,
     tokens |-> <<Token("y", "Yes", Norm(1, 2)), Token("n", "No", Norm(1, 2))>>,
     volume |-> Num(10000), endDateIso |-> IsoInstant(48)]

(* The raw markets of which the lists for parseAllMarkets are made: one of  *)
(* each wording for a known city and month, one with an unknown city and    *)
(* one with an unknown month.                                               *)
ListedRaws ==
    {RawWithTitle(t) : t \in
        {u \in Titles :
            /\ u.x.digits = <<"3", "2">> /\ u.x.sign = ""
            /\ u.y.digits = <<"3", "3">> /\ u.y.sign = ""
            /\ u.date.day = <<"1", "6">>
            /\ \/ u.city = <<"N", "Y", "C">> /\ u.date.month = <<"F", "e", "b", "r", "u", "a", "r", "y">>
               \/ /\ u.wording = "between"
                  /\ u.city = <<"T", "o", "k", "y", "o">>
                  /\ u.date.month = <<"F", "e", "b", "r", "u", "a", "r", "y">>
               \/ /\ u.wording = "between"
                  /\ u.city = <<"N", "Y", "C">>
                  /\ u.date.month = <<"S", "m", "a", "r", "c", "h">>}}

(* The longest list handed to parseAllMarkets. *)
MaxRaws == 2

InitParser ==
    /\ args \in [fn : {"parseMarketTitle"}, raw : {RawWithTitle(t) : t \in Titles},
                 year : {2026}]
             \cup [fn : {"parseAllMarkets"},
                   raws : UNION {[1 .. n -> ListedRaws] : n \in 0 .. MaxRaws},
                   year : {2026}]
    /\ ret = Null
    /\ pc = "call"

CallParseTitle ==
    /\ pc = "call"
    /\ args.fn = "parseMarketTitle"
    /\ ret' = parseMarketTitle(args.raw, args.year)
    /\ pc' = "done"
    /\ UNCHANGED args

CallParseAll ==
    /\ pc = "call"
    /\ args.fn = "parseAllMarkets"
    /\ ret' = parseAllMarkets(args.raws, args.year)
    /\ pc' = "done"
    /\ UNCHANGED args

NextParser == CallParseTitle \/ CallParseAll

SpecParser == InitParser /\ [][NextParser]_vars

(* parseMarketTitle has returned. *)
ParseTitleDone == pc = "done" /\ args.fn = "parseMarketTitle"

(* parseAllMarkets has returned. *)
ParseAllDone == pc = "done" /\ args.fn = "parseAllMarkets"

(* The value of a number written in a title, read off its digits. *)
WrittenValue(number) ==
    CASE number.digits = <<"3", "2">> -> 32
      [] number.digits = <<"3", "3">> -> 33
      [] number.digits = <<"0", "7">> -> 7
      [] number.digits = <<"5">> -> 5

(* C12: "between X-Y" gives type between with bracketMin = X and            *)
(* bracketMax = Y + 1; "X or below" gives type below with bracketMin =      *)
(* -infinity and bracketMax = X + 1; "X or higher" gives type above with    *)
(* bracketMin = X and bracketMax = +infinity.                               *)
C12_TitleBounds ==
    (ParseTitleDone /\ ret # Null) =>
        LET title == args.raw.title
        IN  /\ title.wording \in {"between", "or below", "or higher"}
            /\ title.wording = "between" =>
                  /\ ret.bracketType = "between"
                  /\ ret.bracketMin = Num(WrittenValue(title.x))
                  /\ ret.bracketMax = Num(WrittenValue(title.y) + 1)
            /\ title.wording = "or below" =>
                  /\ ret.bracketType = "below"
                  /\ ret.bracketMin = NegInfinity
                  /\ ret.bracketMax = Num(WrittenValue(title.x) + 1)
            /\ title.wording = "or higher" =>
                  /\ ret.bracketType = "above"
                  /\ ret.bracketMin = Num(WrittenValue(title.x))
                  /\ ret.bracketMax = Infinity

(* C12 witness: "between 07-33" parsed to the bounds 7 and 34. *)
C12_Witness ==
    /\ ParseTitleDone
    /\ ret # Null
    /\ args.raw.title.wording = "between"
    /\ args.raw.title.x.digits = <<"0", "7">>
    /\ args.raw.title.y.digits = <<"3", "3">>
    /\ ret.bracketMin = Num(7)
    /\ ret.bracketMax = Num(34)

(* C13: every descriptor returned has, for type between, finite bounds with *)
(* bracketMax > bracketMin; for type above, bracketMax = +infinity; for     *)
(* type below, bracketMin = -infinity; whatever the numbers of the title.   *)
C13_BracketInvariant ==
    (ParseTitleDone /\ ret # Null) =>
        /\ ret.bracketType = "between" =>
              /\ IsFinite(ret.bracketMin)
              /\ IsFinite(ret.bracketMax)
              /\ NumGt(ret.bracketMax, ret.bracketMin)
        /\ ret.bracketType = "above" => ret.bracketMax = Infinity
        /\ ret.bracketType = "below" => ret.bracketMin = NegInfinity

(* No pattern matches the title: none of the three wordings, or a number    *)
(* that is not a run of digits.                                             *)
NoPatternMatches(title) ==
    \/ title.wording = "none"
    \/ title.x.sign # ""
    \/ title.wording = "between" /\ title.y.sign # ""

(* The city text, trimmed and in lower case, is no alias, holds no alias    *)
(* and is part of no alias.                                                 *)
CityUnresolved(title) ==
    \A k \in 1 .. Len(CITY_ALIASES) :
        /\ ~includes(toLowerCase(trim(title.city)), CITY_ALIASES[k][1])
        /\ ~includes(CITY_ALIASES[k][1], toLowerCase(trim(title.city)))

(* The month word is no month name or abbreviation, or the day has no       *)
(* digit.                                                                   *)
DateUnparsable(title) ==
    \/ \A k \in 1 .. Len(MONTHS) : MONTHS[k][1] # toLowerCase(title.date.month)
    \/ \A i \in 1 .. Len(title.date.day) : ~IsDigit(title.date.day[i])

(* The title yields no descriptor. *)
Unparsable(title) ==
    NoPatternMatches(title) \/ CityUnresolved(title) \/ DateUnparsable(title)

(* C14: parseMarketTitle returns null whenever no pattern matches, the city *)
(* text resolves to no alias or the date text has no known month or no day  *)
(* digits, and a descriptor otherwise; parseAllMarkets drops exactly those  *)
(* markets.                                                                 *)
C14_ParserTotal ==
    /\ ParseTitleDone => (ret = Null <=> Unparsable(args.raw.title))
    /\ ParseAllDone =>
          /\ Len(ret) = Cardinality({i \in 1 .. Len(args.raws) :
                                      ~Unparsable(args.raws[i].title)})
          /\ \A i \in 1 .. Len(ret) :
                \E j \in 1 .. Len(args.raws) :
                    /\ ~Unparsable(args.raws[j].title)
                    /\ ret[i] = parseMarketTitle(args.raws[j], args.year)

---------------------------------------------------------------------------
(* Specification SpecModelProb: calcAboveProbability and                    *)
(* calcBelowProbability on one daily forecast and threshold, and            *)
(* getModelProbability on one ensemble, date and bracket.                   *)

ThresholdArgs ==
    [fn : {"calcAboveProbability", "calcBelowProbability"},
     forecast : [date : {1}, highs : MemberLists, lows : MemberLists],
     metric : Metrics,
     threshold : BoundValues]

(* Every type with every pair of bounds. *)
DispatchBrackets ==
    [bracketType : {"above", "below", "between"},
     bracketMin : BoundValues, bracketMax : BoundValues]

ModelProbArgs ==
    [fn : {"getModelProbability"}, ensemble : Ensembles, date : {1, 2},
     metric : Metrics, bracket : DispatchBrackets]

InitModelProb ==
    /\ args \in ThresholdArgs \cup ModelProbArgs
    /\ ret = Null
    /\ pc = "call"

CallAbove ==
    /\ pc = "call"
    /\ args.fn = "calcAboveProbability"
    /\ ret' = calcAboveProbability(args.forecast, args.metric, args.threshold)
    /\ pc' = "done"
    /\ UNCHANGED args

CallBelow ==
    /\ pc = "call"
    /\ args.fn = "calcBelowProbability"
    /\ ret' = calcBelowProbability(args.forecast, args.metric, args.threshold)
    /\ pc' = "done"
    /\ UNCHANGED args

CallModelProbability ==
    /\ pc = "call"
    /\ args.fn = "getModelProbability"
    /\ ret' = getModelProbability(args.ensemble, args.date, args.metric,
                 args.bracket.bracketType, args.bracket.bracketMin,
                 args.bracket.bracketMax)
    /\ pc' = "done"
    /\ UNCHANGED args

NextModelProb == CallAbove \/ CallBelow \/ CallModelProbability

SpecModelProb == InitModelProb /\ [][NextModelProb]_vars

(* The probability the call under check returned, and the probability the   *)
(* other of the two functions gives for the same arguments.                 *)
AboveOfCall ==
    IF args.fn = "calcAboveProbability" THEN ret
    ELSE calcAboveProbability(args.forecast, args.metric, args.threshold)

BelowOfCall ==
    IF args.fn = "calcBelowProbability" THEN ret
    ELSE calcBelowProbability(args.forecast, args.metric, args.threshold)

(* One of the two threshold functions has returned for a nonempty list. *)
ThresholdDone ==
    /\ pc = "done"
    /\ args.fn \in {"calcAboveProbability", "calcBelowProbability"}
    /\ Len(Members(args.forecast, args.metric)) > 0

(* C15: for a nonempty member list, calcAboveProbability(t) +               *)
(* calcBelowProbability(t) = 1, every member being counted by exactly one   *)
(* of the two.                                                              *)
C15_AbovePlusBelow ==
    ThresholdDone =>
        LET temps == Members(args.forecast, args.metric)
            n == Len(temps)
            above == {i \in 1 .. n : NumGe(Num(temps[i]), args.threshold)}
            below == {i \in 1 .. n : NumLt(Num(temps[i]), args.threshold)}
        IN  /\ NumAdd(AboveOfCall, BelowOfCall) = Num(1)
            /\ above \cap below = {}
            /\ above \cup below = 1 .. n
            /\ NumMul(AboveOfCall, Num(n)) = Num(Cardinality(above))
            /\ NumMul(BelowOfCall, Num(n)) = Num(Cardinality(below))

(* C15 witness: a list with a member at the threshold and a member under    *)
(* it, half of the members on each side.                                    *)
C15_Witness ==
    /\ ThresholdDone
    /\ args.fn = "calcBelowProbability"
    /\ \E i \in 1 .. Len(Members(args.forecast, args.metric)) :
          Num(Members(args.forecast, args.metric)[i]) = args.threshold
    /\ ret = Norm(1, 2)
    /\ AboveOfCall = Norm(1, 2)

(* The daily entries of the ensemble of the call that carry its date. *)
EntriesOfDate ==
    {i \in 1 .. Len(args.ensemble.daily) : args.ensemble.daily[i].date = args.date}

(* C16: getModelProbability returns null when the ensemble has no entry for *)
(* the date; otherwise calcAboveProbability at bracketMin for above,        *)
(* calcBelowProbability at bracketMax for below, and calcBucketProbability  *)
(* over [bracketMin, bracketMax) for between.                               *)
C16_Dispatch ==
    (pc = "done" /\ args.fn = "getModelProbability") =>
        IF EntriesOfDate = {} THEN ret = Null
        ELSE LET day == args.ensemble.daily[CHOOSE i \in EntriesOfDate : TRUE]
                 b == args.bracket
             IN  /\ ret # Null
                 /\ b.bracketType = "above" =>
                       ret = calcAboveProbability(day, args.metric, b.bracketMin)
                 /\ b.bracketType = "below" =>
                       ret = calcBelowProbability(day, args.metric, b.bracketMax)
                 /\ b.bracketType = "between" =>
                       /\ ret = calcBucketProbability(day, args.metric,
                                   b.bracketMin, b.bracketMax).probability
                       /\ NumMul(ret, Num(Len(Members(day, args.metric)))) =
                             Num(MembersWithin(Members(day, args.metric),
                                               b.bracketMin, b.bracketMax))

(* C16 witness: a type-below bracket with two finite bounds, for which the  *)
(* probability under bracketMax differs from the one under bracketMin.      *)
C16_Witness ==
    /\ pc = "done"
    /\ args.fn = "getModelProbability"
    /\ EntriesOfDate # {}
    /\ args.bracket.bracketType = "below"
    /\ IsFinite(args.bracket.bracketMin)
    /\ IsFinite(args.bracket.bracketMax)
    /\ ret = Num(1)
    /\ calcBelowProbability(args.ensemble.daily[1], args.metric,
                            args.bracket.bracketMin) = Num(0)

(* Whether a forecast has a daily entry for the date of the                 *)
(* calculateConsensus call.                                                 *)
HasEntryForDate(ensemble) ==
    \E i \in 1 .. Len(ensemble.daily) : ensemble.daily[i].date = args.date

(* C17: calculateConsensus returns null if and only if the primary forecast *)
(* has no entry for the date; a secondary forecast without an entry for the *)
(* date gives the same result as no secondary forecast.                     *)
C17_NullOnlyWithoutPrimary ==
    (pc = "done" /\ args.fn = "calculateConsensus") =>
        /\ ret = Null <=> ~HasEntryForDate(args.gfsEnsemble)
        /\ (args.ecmwfEnsemble # Null /\ ~HasEntryForDate(args.ecmwfEnsemble)) =>
              ret = calculateConsensus(args.gfsEnsemble, Null, args.nwsHigh,
                       args.date, args.metric, args.bracket.bracketType,
                       args.bracket.bracketMin, args.bracket.bracketMax)

(* C17 witness: a result for a primary forecast with the date and a         *)
(* secondary forecast without it.                                           *)
C17_Witness ==
    /\ ConsensusReturned
    /\ HasEntryForDate(args.gfsEnsemble)
    /\ args.ecmwfEnsemble # Null
    /\ ~HasEntryForDate(args.ecmwfEnsemble)
    /\ ret.ecmwfProbability = Null
    /\ ret.consensusProbability = ret.gfsProbability

(* kellySize has returned. *)
KellyDone == pc = "done" /\ args.fn = "kellySize"

(* C18: kellySize returns size 0 when the effective price is 1, for every   *)
(* probability, and when the bankroll is 0, for every probability and every *)
(* price in (0, 1].                                                         *)
C18_KellyBoundaries ==
    KellyDone =>
        /\ args.effectivePrice = Num(1) => ret.size = Num(0)
        /\ (/\ args.bankroll = Num(0)
            /\ NumGt(args.effectivePrice, Num(0))
            /\ NumLe(args.effectivePrice, Num(1))) => ret.size = Num(0)

(* C18 witness: a bet with positive Kelly fraction on a bankroll of 0. *)
C18_Witness ==
    /\ KellyDone
    /\ args.bankroll = Num(0)
    /\ NumGt(args.effectivePrice, Num(0))
    /\ NumLt(args.effectivePrice, args.modelProbability)
    /\ NumGt(ret.rawKelly, Num(0))
    /\ ret.size = Num(0)

(* C19: when the effective price is 0, kellySize returns size 0, a finite   *)
(* number, for every probability, bankroll and config.                      *)
C19_ZeroPriceSizeZero ==
    (KellyDone /\ args.effectivePrice = Num(0)) =>
        /\ IsFinite(ret.size)
        /\ ret.size = Num(0)

---------------------------------------------------------------------------
(* Claims on calculateEdge and the YES price (SpecEdge).                    *)

EdgeDone == pc = "done" /\ args.fn = "calculateEdge" /\ EdgeProb # Null

(* The two prices of the market are complementary: noPrice = 1 - yesPrice. *)
ComplementaryPrices ==
    args.market.noPrice = NumSub(Num(1), args.market.yesPrice)

---------------------------------------------------------------------------
(* Claims on the order of the signals of generateSignals (SpecSignals).     *)

(* The strictly increasing maps from the positions of the returned signals *)
(* to positions of the input list that carry the signal's market.          *)
SignalPositions ==
    {f \in [1 .. Len(ret) -> 1 .. Len(args.markets)] :
        /\ \A i, j \in 1 .. Len(ret) : i < j => f[i] < f[j]
        /\ \A i \in 1 .. Len(ret) : ret[i].market = args.markets[f[i]]}

(* C22: the markets of the signals generateSignals returns form a          *)
(* subsequence of the input market list: input order, at most one signal   *)
(* per market entry, no re-ranking by edge or confidence.                  *)
C22_SignalsInInputOrder ==
    SignalsDone =>
        /\ Len(ret) <= Len(args.markets)
        /\ SignalPositions # {}

(* C22 witness: two signals for two different markets, the first with the  *)
(* strictly smaller edge.                                                  *)
C22_Witness ==
    /\ SignalsDone
    /\ Len(ret) = 2
    /\ ret[1].market # ret[2].market
    /\ NumLt(ret[1].edge, ret[2].edge)
    /\ ret[1].market = args.markets[1]
    /\ ret[2].market = args.markets[2]

---------------------------------------------------------------------------
(* Claims on the tiers reachable inside generateSignals (SpecSignals).      *)

(* The offered markets for which the call computes a consensus: the city   *)
(* has a primary forecast and the forecast has an entry for the date.      *)
WithConsensus ==
    {m \in Offered :
        /\ MapGet(args.gfsEnsembles, m.city) # Null
        /\ ConsensusFor(m) # Null}

(* C29: inside generateSignals, where the point forecast is always null,   *)
(* the consensus tier of every market is LOCK, SAFE or NEAR-SAFE, never    *)
(* STRONG or SKIP, and the multiplier is positive, so the filter on SKIP   *)
(* removes no market.                                                      *)
C29_TiersWithoutPointForecast ==
    SignalsDone =>
        \A m \in WithConsensus :
            /\ ConsensusFor(m).confidence \in {"LOCK", "SAFE", "NEAR-SAFE"}
            /\ NumGt(ConsensusFor(m).kellyMultiplier, Num(0))

(* C29 witness: one call with a market on which both models agree (LOCK)   *)
(* and a market on which they vote on opposite sides (NEAR-SAFE).          *)
C29_Witness ==
    /\ SignalsDone
    /\ \E m \in WithConsensus : ConsensusFor(m).confidence = "LOCK"
    /\ \E m \in WithConsensus :
          /\ OppositeVotes(m)
          /\ ConsensusFor(m).confidence = "NEAR-SAFE"

---------------------------------------------------------------------------
(* utils/retry.ts                                                           *)
(* Specification SpecFetch: one fetchWithRetry call, one step per pass of   *)
(* the for loop.  args holds the arguments; ret holds the locals of the     *)
(* call (attempt, lastError), the log of what fetch answered and of the     *)
(* delays slept, and the outcome of the call; pc is "attempt" while the     *)
(* loop runs.                                                               *)

(* The largest maxRetries of a call (the callers pass 1, 2 or the default   *)
(* 3).                                                                      *)
MaxRetriesBound == 3

(* What one fetch can answer: a response with a status, or a thrown error. *)
FetchStatuses == {200, 404, 429, 500, 503}

FetchErrors == {"ECONNRESET", "ETIMEDOUT"}

FetchAnswers ==
    [kind : {"response"}, status : FetchStatuses]
    \cup [kind : {"error"}, error : FetchErrors]

(* Mutant of IsRetryableStatus: every status from 400 on is retried. *)
IsRetryableStatus_from400(status) == status >= 400

(* res.status === 429 || res.status >= 500 *)
IsRetryableStatus(status) == status = 429 \/ status >= 500

(* baseDelayMs * Math.pow(2, attempt) *)
RetryDelay(baseDelayMs, attempt) == baseDelayMs * (2 ^ attempt)

InitFetch ==
    /\ args \in [fn : {"fetchWithRetry"}, maxRetries : 0 .. MaxRetriesBound,
                 baseDelayMs : {500, 1000}]
    /\ ret = [attempt |-> 0, lastError |-> Null, fetched |-> <<>>,
              slept |-> <<>>, outcome |-> Null]
    /\ pc = "attempt"

(* A pass of the loop is about to start. *)
InLoop ==
    /\ pc = "attempt"
    /\ args.fn = "fetchWithRetry"
    /\ ret.attempt <= args.maxRetries

(* fetch answers a retryable status before the last attempt: sleep and     *)
(* continue.                                                               *)
FetchRetry ==
    /\ InLoop
    /\ \E status \in FetchStatuses :
          /\ IsRetryableStatus(status)
          /\ ret.attempt < args.maxRetries
          /\ ret' = [ret EXCEPT
                !.fetched = Append(@, [kind |-> "response", status |-> status]),
                !.slept = Append(@, RetryDelay(args.baseDelayMs, ret.attempt)),
                !.attempt = @ + 1]
    /\ UNCHANGED <<args, pc>>

(* fetch answers a status that is not retryable, or a retryable one on the *)
(* last attempt: the response is returned.                                 *)
FetchReturn ==
    /\ InLoop
    /\ \E status \in FetchStatuses :
          /\ ~(IsRetryableStatus(status) /\ ret.attempt < args.maxRetries)
          /\ ret' = [ret EXCEPT
                !.fetched = Append(@, [kind |-> "response", status |-> status]),
                !.outcome = [kind |-> "return", status |-> status]]
    /\ pc' = "done"
    /\ UNCHANGED args

(* fetch throws: the error is kept, the delay is slept before the last     *)
(* attempt only, and the loop goes on.                                     *)
FetchCatch ==
    /\ InLoop
    /\ \E error \in FetchErrors :
          ret' = [ret EXCEPT
                !.fetched = Append(@, [kind |-> "error", error |-> error]),
                !.lastError = <<error>>,
                !.slept = IF ret.attempt < args.maxRetries
                          THEN Append(@, RetryDelay(args.baseDelayMs, ret.attempt))
                          ELSE @,
                !.attempt = @ + 1]
    /\ UNCHANGED <<args, pc>>

(* The loop is over: throw lastError ?? new Error(...). *)
FetchThrow ==
    /\ pc = "attempt"
    /\ args.fn = "fetchWithRetry"
    /\ ret.attempt > args.maxRetries
    /\ ret' = [ret EXCEPT
          !.outcome = [kind |-> "throw",
                       error |-> IF ret.lastError = Null THEN "Failed to fetch"
                                 ELSE ret.lastError[1]]]
    /\ pc' = "done"
    /\ UNCHANGED args

NextFetch == FetchRetry \/ FetchReturn \/ FetchCatch \/ FetchThrow

SpecFetch == InitFetch /\ [][NextFetch]_vars

(* Every fetch settles, with a response or an error, and every sleep ends. *)
SpecFetchLive == SpecFetch /\ WF_vars(NextFetch)

(* Claims on fetchWithRetry (SpecFetch, SpecFetchLive).                    *)

FetchDone == pc = "done" /\ args.fn = "fetchWithRetry"

(* The answer of a fetch asks for a retry: 429, 5xx or a thrown error. *)
AsksRetry(answer) ==
    answer.kind = "error" \/ (answer.status = 429 \/ answer.status >= 500)

(* What holds at every step of a call: at most maxRetries + 1 fetches;     *)
(* every fetch but the last one of the call asked for a retry and was      *)
(* followed by a sleep of baseDelayMs * 2^attempt; a returned response is  *)
(* the answer of the last fetch, not retryable unless it was the final     *)
(* attempt; an error is thrown only after maxRetries + 1 fetches of which  *)
(* the last one threw that error.                                          *)
FetchSafe ==
    args.fn = "fetchWithRetry" =>
        LET n == Len(ret.fetched)
            retried == IF FetchDone /\ n > 0 THEN n - 1 ELSE n
        IN  /\ n <= args.maxRetries + 1
            /\ \A i \in 1 .. retried : AsksRetry(ret.fetched[i])
            /\ \A i \in 1 .. Len(ret.slept) :
                  ret.slept[i] = args.baseDelayMs * (2 ^ (i - 1))
            /\ Len(ret.slept) = IF retried > args.maxRetries
                                THEN args.maxRetries ELSE retried
            /\ (FetchDone /\ ret.outcome.kind = "return") =>
                  /\ n >= 1
                  /\ ret.fetched[n] =
                        [kind |-> "response", status |-> ret.outcome.status]
                  /\ AsksRetry(ret.fetched[n]) => n = args.maxRetries + 1
            /\ (FetchDone /\ ret.outcome.kind = "throw") =>
                  /\ n = args.maxRetries + 1
                  /\ ret.fetched[n] =
                        [kind |-> "error", error |-> ret.outcome.error]

(* C30: fetchWithRetry terminates after at most maxRetries + 1 fetches; it *)
(* returns the first response whose status is neither 429 nor 5xx, retries *)
(* after baseDelayMs * 2^attempt only on 429, 5xx or a thrown error,       *)
(* returns the last response when the final attempt is still retryable,    *)
(* and throws only when the final attempt threw.                           *)
C30_FetchWithRetry == []FetchSafe /\ <>FetchDone

(* C30 witness: a call with two retries allowed that slept twice, after a  *)
(* thrown error and after a 429, and returned the 503 of its final attempt.*)
C30_Witness ==
    /\ FetchDone
    /\ args.maxRetries = 2
    /\ Len(ret.fetched) = 3
    /\ ret.fetched[1].kind = "error"
    /\ ret.fetched[2] = [kind |-> "response", status |-> 429]
    /\ ret.slept = <<args.baseDelayMs, 2 * args.baseDelayMs>>
    /\ ret.outcome = [kind |-> "return", status |-> 503]

---------------------------------------------------------------------------
(* engine/risk.ts                                                           *)
(* The risk state is the pair of module variables consecutiveLosses and     *)
(* circuitBroken of one process.                                            *)

MAX_CONSECUTIVE_LOSSES == 3

(* let consecutiveLosses = 0; let circuitBroken = false; *)
RiskModuleLoaded == [consecutiveLosses |-> 0, circuitBroken |-> FALSE]

(* Mutant of onSettlement: a win clears the counter but not the breaker. *)
onSettlement_staysBroken(risk, won) ==
    IF won
    THEN [risk EXCEPT !.consecutiveLosses = 0]
    ELSE [consecutiveLosses |-> risk.consecutiveLosses + 1,
          circuitBroken |->
              IF risk.consecutiveLosses + 1 >= MAX_CONSECUTIVE_LOSSES
              THEN TRUE ELSE risk.circuitBroken]

(* The risk state after onSettlement(won). *)
onSettlement(risk, won) ==
    IF won
    THEN [consecutiveLosses |-> 0, circuitBroken |-> FALSE]
    ELSE [consecutiveLosses |-> risk.consecutiveLosses + 1,
          circuitBroken |->
              IF risk.consecutiveLosses + 1 >= MAX_CONSECUTIVE_LOSSES
              THEN TRUE ELSE risk.circuitBroken]

(* The risk state after resetCircuitBreaker(). *)
resetCircuitBreaker(risk) == [consecutiveLosses |-> 0, circuitBroken |-> FALSE]

---------------------------------------------------------------------------
(* Specification SpecRisk: any sequence of onSettlement and                 *)
(* resetCircuitBreaker calls in one process, from the state of the freshly  *)
(* loaded module.  ret holds the risk state and the log of the calls made.  *)

(* The longest sequence of calls. *)
MaxCalls == 5

InitRisk ==
    /\ args = [fn |-> "risk"]
    /\ ret = [risk |-> RiskModuleLoaded, calls |-> <<>>]
    /\ pc = "idle"

CanCall == pc = "idle" /\ args.fn = "risk" /\ Len(ret.calls) < MaxCalls

OnSettlementWon ==
    /\ CanCall
    /\ ret' = [risk |-> onSettlement(ret.risk, TRUE),
               calls |-> Append(ret.calls, "won")]
    /\ UNCHANGED <<args, pc>>

OnSettlementLost ==
    /\ CanCall
    /\ ret' = [risk |-> onSettlement(ret.risk, FALSE),
               calls |-> Append(ret.calls, "lost")]
    /\ UNCHANGED <<args, pc>>

ResetCircuitBreaker ==
    /\ CanCall
    /\ ret' = [risk |-> resetCircuitBreaker(ret.risk),
               calls |-> Append(ret.calls, "reset")]
    /\ UNCHANGED <<args, pc>>

NextRisk == OnSettlementWon \/ OnSettlementLost \/ ResetCircuitBreaker

SpecRisk == InitRisk /\ [][NextRisk]_vars

(* Claims on the risk state (SpecRisk).                                     *)

(* The number of "lost" entries at the end of a log, back to the last win   *)
(* or reset.                                                                *)
TrailingLosses(calls) ==
    LET n == Len(calls)
    IN  CHOOSE k \in 0 .. n :
            /\ \A i \in (n - k + 1) .. n : calls[i] = "lost"
            /\ k = n \/ calls[n - k] # "lost"

(* C24: after any sequence of onSettlement and resetCircuitBreaker calls    *)
(* from the initial state, circuitBroken holds exactly when                 *)
(* consecutiveLosses >= 3, consecutiveLosses is the number of losses since  *)
(* the last win or reset, and right after onSettlement(true) or a reset     *)
(* consecutiveLosses = 0 and circuitBroken = false.                         *)
C24_RiskState ==
    args.fn = "risk" =>
        /\ ret.risk.circuitBroken <=> ret.risk.consecutiveLosses >= 3
        /\ ret.risk.consecutiveLosses = TrailingLosses(ret.calls)
        /\ (ret.calls # <<>> /\ ret.calls[Len(ret.calls)] \in {"won", "reset"}) =>
              (ret.risk.consecutiveLosses = 0 /\ ~ret.risk.circuitBroken)

(* C24 witness: four losses in a row, the breaker tripped, then a win that  *)
(* clears both.                                                             *)
C24_Witness ==
    /\ args.fn = "risk"
    /\ ret.calls = <<"lost", "lost", "lost", "lost", "won">>
    /\ ret.risk = [consecutiveLosses |-> 0, circuitBroken |-> FALSE]

---------------------------------------------------------------------------
(* store/db.ts, market/execution.ts, settlement/tracker.ts and the rest of  *)
(* engine/risk.ts: the positions table, the scan cycle and the settlement   *)
(* check.  The positions table is a sequence in insertion order; the id of  *)
(* a position is its index, and entry times are taken to increase strictly  *)
(* from one insertion to the next.  The settlements table (the cache of     *)
(* daily reports of one station) is a function from dates to a high or      *)
(* Null.  Time is counted in hours.                                         *)

(* Mutant of getOpenPositions: every position is returned. *)
getOpenPositions_all(positions) == positions

(* SELECT * FROM positions WHERE status = 'open' *)
getOpenPositions(positions) == SelectSeq(positions, LAMBDA p : p.status = "open")

(* SELECT * FROM positions ORDER BY entry_time DESC *)
getAllPositions(positions) ==
    [i \in 1 .. Len(positions) |-> positions[Len(positions) + 1 - i]]

(* UPDATE positions SET status, settle_time, actual_temp, pnl WHERE id *)
settlePosition(positions, id, status, actualTemp, pnl, now) ==
    [i \in 1 .. Len(positions) |->
        IF positions[i].id = id
        THEN [positions[i] EXCEPT !.status = status, !.settleTime = now,
                                  !.actualTemp = actualTemp, !.pnl = pnl]
        ELSE positions[i]]

(* The number of "lost" positions at the head of a list, up to the first   *)
(* one that is not lost.                                                   *)
LeadingLosses(settled) ==
    CHOOSE k \in 0 .. Len(settled) :
        /\ \A i \in 1 .. k : settled[i].status = "lost"
        /\ k = Len(settled) \/ settled[k + 1].status # "lost"

(* The risk state after initRiskState() in a process whose risk state was  *)
(* risk.                                                                   *)
initRiskState(risk, positions) ==
    LET settled == SelectSeq(getAllPositions(positions),
                             LAMBDA p : p.status \in {"won", "lost"})
        losses == LeadingLosses(settled)
    IN  [consecutiveLosses |-> losses,
         circuitBroken |-> IF losses >= MAX_CONSECUTIVE_LOSSES THEN TRUE
                           ELSE risk.circuitBroken]

(* executePaper: the position of a signal, entered at entryTime. *)
executePaper(signal, id, entryTime) ==
    [id |-> id, city |-> signal.market.city, date |-> signal.market.date,
     metric |-> signal.market.metric, bracketMin |-> signal.market.bracketMin,
     bracketMax |-> signal.market.bracketMax,
     bracketType |-> signal.market.bracketType, side |-> signal.side,
     entryPrice |-> signal.marketPrice, size |-> signal.size,
     potentialPayout |-> NumDiv(signal.size, signal.marketPrice),
     status |-> "open", entryTime |-> entryTime, settleTime |-> Null,
     actualTemp |-> Null, pnl |-> Null]

(* Mutant of AtCapacity: one position more than the maximum is let in. *)
AtCapacity_strict(openCount, maxOpenPositions) == openCount > maxOpenPositions

(* openPositions.length >= config.maxOpenPositions *)
AtCapacity(openCount, maxOpenPositions) == openCount >= maxOpenPositions

(* The execution loop of a cycle: stop at capacity, insert the position of *)
(* every signal whose execution succeeds, skip the ones that throw.        *)
RECURSIVE ExecuteSignals(_, _, _, _, _)
ExecuteSignals(positions, openCount, signals, executes, maxOpenPositions) ==
    IF signals = <<>> THEN positions
    ELSE IF AtCapacity(openCount, maxOpenPositions) THEN positions
    ELSE IF Head(executes)
    THEN ExecuteSignals(
            Append(positions,
                   executePaper(Head(signals), Len(positions) + 1,
                                Len(positions) + 1)),
            openCount + 1, Tail(signals), Tail(executes), maxOpenPositions)
    ELSE ExecuteSignals(positions, openCount, Tail(signals), Tail(executes),
                        maxOpenPositions)

(* Steps 4 to 6 of a cycle: the risk check, then the execution loop. *)
ScanCycle(positions, risk, signals, executes, config) ==
    IF risk.circuitBroken THEN positions
    ELSE IF AtCapacity(Len(getOpenPositions(positions)), config.maxOpenPositions)
    THEN positions
    ELSE ExecuteSignals(positions, Len(getOpenPositions(positions)), signals,
                        executes, config.maxOpenPositions)

evaluateOutcome(pos, actualTemp) ==
    LET inBracket ==
            IF pos.bracketType = "above" THEN NumGe(actualTemp, pos.bracketMin)
            ELSE IF pos.bracketType = "below" THEN NumLt(actualTemp, pos.bracketMax)
            ELSE NumGe(actualTemp, pos.bracketMin) /\ NumLt(actualTemp, pos.bracketMax)
    IN  IF pos.side = "YES"
        THEN (IF inBracket THEN "won" ELSE "lost")
        ELSE (IF inBracket THEN "lost" ELSE "won")

(* The settlements table after fetchCLIReport(station, date): untouched    *)
(* when the date is cached or the request fails (api = Null), otherwise    *)
(* every result of the answer is upserted.                                 *)
fetchCLIReport(settlements, api, date) ==
    IF settlements[date] # Null THEN settlements
    ELSE IF api = Null THEN settlements
    ELSE [d \in DOMAIN settlements |->
            IF api[d] # Null THEN api[d] ELSE settlements[d]]

(* if (posDate >= now) continue *)
Settleable(pos, now) == ~NumGe(DayGetTime(pos.date), Num(now))

(* The settlement of one position against its report. *)
SettleOne(s, pos, report, now) ==
    LET actualTemp == IF pos.metric = "high" THEN report.high ELSE report.low
        outcome == evaluateOutcome(pos, actualTemp)
        pnl == IF outcome = "won" THEN NumSub(pos.potentialPayout, pos.size)
               ELSE NumNeg(pos.size)
    IN  [s EXCEPT
            !.positions = settlePosition(s.positions, pos.id, outcome,
                                         actualTemp, pnl, now),
            !.risk = onSettlement(s.risk, outcome = "won"),
            !.log = Append(s.log, [id |-> pos.id, won |-> outcome = "won"])]

(* The loop of checkSettlements over the open positions read at its start. *)
RECURSIVE SettleEach(_, _, _, _)
RECURSIVE SettleReported(_, _, _, _)
SettleEach(s, openPositions, api, now) ==
    IF openPositions = <<>> THEN s
    ELSE IF ~Settleable(Head(openPositions), now)
    THEN SettleEach(s, Tail(openPositions), api, now)
    ELSE SettleReported(
            [s EXCEPT !.settlements =
                fetchCLIReport(s.settlements, api, Head(openPositions).date)],
            openPositions, api, now)

(* The rest of a loop pass, once the report was looked up. *)
SettleReported(s, openPositions, api, now) ==
    IF s.settlements[Head(openPositions).date] = Null
    THEN SettleEach(s, Tail(openPositions), api, now)
    ELSE SettleEach(
            SettleOne(s, Head(openPositions),
                      s.settlements[Head(openPositions).date], now),
            Tail(openPositions), api, now)

checkSettlements(s, api, now) ==
    SettleEach(s, getOpenPositions(s.positions), api, now)

---------------------------------------------------------------------------
(* Specification SpecBot: the bot from an empty database.  args holds the   *)
(* deployment and the config: "loop" is the index.ts process, whose every   *)
(* iteration scans and, when the settlement check is due, settles; "cron"   *)
(* is the pair of one-shot commands scan.ts and settle.ts, each run in a    *)
(* fresh process that rebuilds the risk state from the database.  ret       *)
(* holds the two tables, the risk state of the index.ts process, the clock  *)
(* and the log of the onSettlement calls made so far, in order.             *)

(* The most rows of the positions table. *)
MaxPositions == 5

(* The most signals of one cycle. *)
MaxSignals == 2

(* The last hour of the clock; it starts at noon of day 0 and advances by   *)
(* half days.                                                               *)
MaxHours == 60

BotDates == {1, 2}

(* The signals a cycle can get from generateSignals: markets on the high of *)
(* nyc reaching 42, either side, 5 dollars at a quarter.                    *)
BotSignals ==
    {[market |-> [city |-> "nyc", date |-> d, metric |-> "high",
                  bracketType |-> "above", bracketMin |-> Num(42),
                  bracketMax |-> Infinity],
      side |-> side, size |-> Num(5), marketPrice |-> Norm(1, 4)] :
        d \in BotDates, side \in {"YES", "NO"}}

(* The daily reports: a high of 41 and a low of 30. *)
BotReports == {[high |-> Num(41), low |-> Num(30)]}

(* What the climate API can answer during one settlement check: nothing    *)
(* usable (Null), or results for any of the dates.                         *)
ApiAnswers == {Null} \cup [BotDates -> {Null} \cup BotReports]

BotConfigs == [maxOpenPositions : {1, 2}]

InitBot ==
    /\ args \in [fn : {"main"}, deployment : {"loop", "cron"}, config : BotConfigs]
    /\ ret = [positions |-> <<>>,
              settlements |-> [d \in BotDates |-> Null],
              risk |-> initRiskState(RiskModuleLoaded, <<>>),
              log |-> <<>>,
              now |-> 12]
    /\ pc = "running"

Running == pc = "running" /\ args.fn = "main"

(* The signals of a cycle and whether the execution of each succeeds: the  *)
(* markets offered are on days that are not over, and the table stays      *)
(* within MaxPositions rows.                                               *)
CycleInputs ==
    {io \in UNION {[1 .. n -> BotSignals \X BOOLEAN] : n \in 0 .. MaxSignals} :
        /\ Len(ret.positions) + Len(io) <= MaxPositions
        /\ \A i \in 1 .. Len(io) : 24 * (io[i][1].market.date + 1) > ret.now}

SignalsOfInputs(io) == [i \in 1 .. Len(io) |-> io[i][1]]

ExecutesOfInputs(io) == [i \in 1 .. Len(io) |-> io[i][2]]

(* One iteration of the loop of index.ts: scan with the risk state of the  *)
(* process, then check the settlements when the check is due.              *)
LoopIteration ==
    /\ Running
    /\ args.deployment = "loop"
    /\ \E io \in CycleInputs, settlementDue \in BOOLEAN, api \in ApiAnswers :
          LET scanned == [ret EXCEPT !.positions =
                             ScanCycle(ret.positions, ret.risk,
                                       SignalsOfInputs(io), ExecutesOfInputs(io),
                                       args.config)]
          IN  ret' = IF settlementDue
                     THEN checkSettlements(scanned, api, ret.now)
                     ELSE scanned
    /\ UNCHANGED <<args, pc>>

(* One run of scan.ts: initRiskState in a fresh process, then the cycle.   *)
ScanRun ==
    /\ Running
    /\ args.deployment = "cron"
    /\ \E io \in CycleInputs :
          ret' = [ret EXCEPT !.positions =
                    ScanCycle(ret.positions,
                              initRiskState(RiskModuleLoaded, ret.positions),
                              SignalsOfInputs(io), ExecutesOfInputs(io),
                              args.config)]
    /\ UNCHANGED <<args, pc>>

(* One run of settle.ts: initRiskState in a fresh process, then            *)
(* checkSettlements; the risk state of the process ends with it.           *)
SettleRun ==
    /\ Running
    /\ args.deployment = "cron"
    /\ getOpenPositions(ret.positions) # <<>>
    /\ \E api \in ApiAnswers :
          ret' = [checkSettlements(
                    [ret EXCEPT !.risk =
                        initRiskState(RiskModuleLoaded, ret.positions)],
                    api, ret.now)
                  EXCEPT !.risk = ret.risk]
    /\ UNCHANGED <<args, pc>>

(* Half a day passes. *)
Tick ==
    /\ Running
    /\ ret.now + 12 <= MaxHours
    /\ ret' = [ret EXCEPT !.now = @ + 12]
    /\ UNCHANGED <<args, pc>>

NextBot == LoopIteration \/ ScanRun \/ SettleRun \/ Tick

SpecBot == InitBot /\ [][NextBot]_vars

---------------------------------------------------------------------------
(* Claims on the circuit breaker, the position limit and the settlements    *)
(* (SpecBot).                                                               *)

(* The three most recent settlements are all losses. *)
LastThreeLost ==
    /\ Len(ret.log) >= 3
    /\ \A i \in (Len(ret.log) - 2) .. Len(ret.log) : ~ret.log[i].won

(* C23: once the three most recent settlements are all losses, no scan      *)
(* cycle, of the loop of index.ts or of a scan.ts run, opens a new position *)
(* until a winning settlement occurs, whatever the order in which the       *)
(* positions were entered and settled.                                      *)
C23_PausedAfterThreeLosses ==
    [][(Running /\ LastThreeLost) => Len(ret'.positions) = Len(ret.positions)]_vars

(* C25: the number of open positions never exceeds config.maxOpenPositions, *)
(* after any sequence of scan cycles, with execution failures, and          *)
(* settlements from an empty table.                                         *)
C25_OpenWithinMaximum ==
    Running => Len(getOpenPositions(ret.positions)) <= args.config.maxOpenPositions

(* C25 witness: the table is at its maximum of two open positions after an  *)
(* earlier position was settled and its place taken again.                  *)
C25_Witness ==
    /\ Running
    /\ args.config.maxOpenPositions = 2
    /\ Len(getOpenPositions(ret.positions)) = 2
    /\ Len(ret.positions) >= 3
    /\ ret.positions[Len(ret.positions)].status = "open"

(* C26: in the process that entered and settled every position, the        *)
(* consecutiveLosses and circuitBroken that initRiskState computes from the *)
(* stored positions equal the ones its onSettlement calls produced.         *)
C26_InitRiskStateFaithful ==
    (Running /\ args.deployment = "loop") =>
        initRiskState(RiskModuleLoaded, ret.positions) = ret.risk

(* The onSettlement calls made for a position. *)
SettlementCalls(id) == {k \in 1 .. Len(ret.log) : ret.log[k].id = id}

(* What holds of every stored position at every moment. *)
SettledOnceState ==
    Running =>
        \A i \in 1 .. Len(ret.positions) :
            LET pos == ret.positions[i]
            IN  /\ pos.status \in {"open", "won", "lost"}
                /\ pos.status = "open" =>
                      (SettlementCalls(pos.id) = {} /\ pos.pnl = Null)
                /\ pos.status # "open" =>
                      /\ Cardinality(SettlementCalls(pos.id)) = 1
                      /\ \A k \in SettlementCalls(pos.id) :
                            ret.log[k].won = (pos.status = "won")
                /\ pos.status = "won" =>
                      pos.pnl = NumSub(pos.potentialPayout, pos.size)
                /\ pos.status = "lost" => pos.pnl = NumNeg(pos.size)

(* What holds of every step: a stored position stays as it is, or goes     *)
(* from open to won or lost.                                               *)
SettledOnceStep ==
    Running =>
        /\ Len(ret'.positions) >= Len(ret.positions)
        /\ \A i \in 1 .. Len(ret.positions) :
              \/ ret'.positions[i] = ret.positions[i]
              \/ /\ ret.positions[i].status = "open"
                 /\ ret'.positions[i].status \in {"won", "lost"}

(* C27: a position is settled at most once: its status only moves from     *)
(* open to won or lost, a won or lost position never changes status or pnl  *)
(* again, onSettlement is called exactly once per settled position, and     *)
(* the pnl is potentialPayout - size for won and -size for lost.            *)
C27_SettledOnce == []SettledOnceState /\ [][SettledOnceStep]_vars

(* C27 witness: a won and a lost position, settled at different times, and  *)
(* an open one.                                                             *)
C27_Witness ==
    /\ Running
    /\ \E i, j, k \in 1 .. Len(ret.positions) :
          /\ ret.positions[i].status = "won"
          /\ ret.positions[j].status = "lost"
          /\ ret.positions[i].settleTime # ret.positions[j].settleTime
          /\ ret.positions[k].status = "open"
    /\ Len(ret.log) = 2

(* C28: no position is marked won or lost while the current time is before  *)
(* the end of the calendar day of its date, whatever reports are available. *)
C28_SettledAfterDay ==
    Running =>
        \A i \in 1 .. Len(ret.positions) :
            ret.positions[i].status # "open" =>
                ret.positions[i].settleTime >= 24 * (ret.positions[i].date + 1)

====
